---- MODULE Spec2Model ----
(***************************************************************************)
(* GraphMaker: the curve sampler (GraphEngine.plot_function), the drawing  *)
(* surface of a graph engine, and the typesetting engine (TexEngine).      *)
(*                                                                         *)
(* Two GraphEngine classes live in the repository and both are modelled:   *)
(*   "utils"  : src/utils/graph_maker.py  (used by the pages)              *)
(*   "legacy" : src/graph_maker.py        (used by app.py)                 *)
(*                                                                         *)
(* Numbers.  Python floats are modelled in fixed point:                    *)
(*   x (math space)   : integer multiples of 1/XS, XS = 65536 * 100, so    *)
(*                      that 0.01, 0.04, 0.05, 0.1, the 1000 scan steps of *)
(*                      a domain and 15 halvings of a scan step are exact; *)
(*   y, slopes        : hundredths of a unit;                              *)
(*   pixels           : hundredths of a pixel (the ".2f" of the path data).*)
(***************************************************************************)
EXTENDS Integers, Sequences, FiniteSets, TLC

VARIABLES
    engine,               \* "utils" | "legacy": which GraphEngine class this engine is
    dwg,                  \* self.dwg: the drawing surface, a sequence of elements
    nops,                 \* number of drawing operations requested so far
    raised,               \* TRUE once an exception has escaped to the caller
    pc,                   \* "idle" | "walk": position inside plot_function
    expr,                 \* plot_function: the parsed expression
    domain,               \* plot_function: <<domain[0], domain[1]>>
    step,                 \* plot_function: base_step
    label_text,           \* plot_function: TRUE when a label is requested
    singularities,        \* plot_function: the singularity list
    a,                    \* plot_function: walk position
    path_data,            \* plot_function: the path commands emitted so far
    current_seg_started,  \* plot_function: the "current segment started" flag
    last_valid_point,     \* plot_function: last on-canvas end pixel, or none
    cut_steps,            \* plot_function: steps so far the safety check did not draw
    label_anchor,         \* pixel the label of the last finished plot was anchored at
    last_op,              \* the operation requested last: [name, outcome]
    tex_text,             \* the text handed to the TexEngine, a sequence of characters
    npieces,              \* number of pieces the text was put together from
    tex_nodes,            \* the nodes _parse_group returned for the text
    tex_box,              \* the box parse_layout returned, or NoBox
    placed,               \* where render_text_tex_lite rendered the box, or NoPlace
    measured,             \* the measure calls so far: [text, after, result] each
    cfg,                  \* self.cfg: the GraphConfig the engine was built with
    screen,               \* the last math_to_screen call and what it returned
    scan,                 \* plot_function: the singularity scan in progress
    metrics,              \* the kerning tables the text_renderer module holds
    rendered              \* what box.render added to the drawing, in order

plotvars == <<expr, domain, step, label_text, singularities, a, path_data,
              current_seg_started, last_valid_point, cut_steps>>
vars == <<engine, dwg, nops, raised, pc, expr, domain, step, label_text,
          singularities, a, path_data, current_seg_started, last_valid_point,
          cut_steps, label_anchor, last_op, tex_text, npieces, tex_nodes, tex_box,
          placed, measured, cfg, screen, metrics, rendered, scan>>
surfvars == <<engine, dwg, nops, raised, pc, expr, domain, step, label_text,
              singularities, a, path_data, current_seg_started, last_valid_point,
              cut_steps, label_anchor, last_op, scan>>
mapvars == <<cfg, screen>>
rendvars == <<metrics, rendered>>
\* what the drawing operations of the surface leave alone
texvars == <<tex_text, npieces, tex_nodes, tex_box, placed, measured, cfg, screen,
             metrics, rendered, scan>>

-----------------------------------------------------------------------------
(* Bounds of the model *)

MaxOps == 2          \* drawing operations requested of one engine
MaxGlyphs == 1       \* glyphs of a text handed to the engine
MaxFeatures == 1     \* features handed to one draw_features call

-----------------------------------------------------------------------------
(* Fixed-point scales *)

XS == 65536 * 100                \* x units per 1.0
HUNDREDTH == XS \div 100              \* x units per 0.01
Abs(v) == IF v < 0 THEN -v ELSE v
Sign(v) == IF v > 0 THEN 1 ELSE IF v < 0 THEN -1 ELSE 0
MinOf(p, q) == IF p <= q THEN p ELSE q
MaxOf(p, q) == IF p >= q THEN p ELSE q
\* truncating division (the sign of the float quotient is kept)
TDiv(n, d) == IF d > 0 THEN Sign(n) * (Abs(n) \div d) ELSE -Sign(n) * (Abs(n) \div (-d))
\* largest magnitudes the fixed-point y values and slopes carry
YCap == 100 * 100000
SlopeCap == 100 * 10000
Saturate(v) == MaxOf(-YCap, MinOf(YCap, v))
SatSlope(v) == MaxOf(-SlopeCap, MinOf(SlopeCap, v))

-----------------------------------------------------------------------------
(* GraphConfig and the canvas geometry of GraphEngine.__init__, for the      *)
(* default configuration with empty axis labels (margins of 40 pixels).      *)

grid_cols == 10
grid_scale == 1
axis_pos == 0
minor_per_major == 5
minor_spacing == 20
margin == 40

pixels_per_unit_x == (minor_spacing * minor_per_major) \div grid_scale
pixels_per_unit_y == (minor_spacing * minor_per_major) \div grid_scale

grid_height == minor_spacing * minor_per_major * grid_cols
width_pixels == 100 * (margin + grid_height + margin)
height_pixels == 100 * (margin + grid_height + margin)
origin_x == 100 * (margin + minor_spacing * minor_per_major * axis_pos)
origin_y == 100 * (margin + minor_spacing * minor_per_major * axis_pos)

\* math_to_screen: x in 1/XS units, y in hundredths; the result in pixel hundredths
math_to_screen_x(x) == origin_x + ((x \div 64) * pixels_per_unit_x) \div 1024
math_to_screen_y(y) == origin_y - y * pixels_per_unit_y

-----------------------------------------------------------------------------
(* The coordinate mapper for any GraphConfig.  A configuration holds its     *)
(* per-axis pairs as the dataclass does; grid_scale is in hundredths, and a  *)
(* point (x, y) and the pixel pair are in hundredths.                        *)

Config(scale, spacing, per_major, pos) ==
    [grid_scale |-> scale, minor_spacing |-> spacing,
     minor_per_major |-> per_major, axis_pos |-> pos]

DefaultConfig ==
    Config(<<100 * grid_scale, 100 * grid_scale>>, <<minor_spacing, minor_spacing>>,
           <<minor_per_major, minor_per_major>>, <<axis_pos, axis_pos>>)

ZeroDivisionError == [ok |-> FALSE, v |-> 0]
Quotient(v) == [ok |-> TRUE, v |-> v]

\* a pixels_per_unit_x that leaves grid_scale out
cfg_pixels_per_unit_x_Unscaled(c) ==
    Quotient(100 * c.minor_spacing[1] * c.minor_per_major[1])

\* GraphConfig.pixels_per_unit_x, in hundredths of a pixel per unit
cfg_pixels_per_unit_x(c) ==
    IF c.grid_scale[1] = 0 THEN ZeroDivisionError
    ELSE Quotient((100 * 100 * c.minor_spacing[1] * c.minor_per_major[1])
                    \div c.grid_scale[1])

\* GraphConfig.pixels_per_unit_y
cfg_pixels_per_unit_y(c) ==
    IF c.grid_scale[2] = 0 THEN ZeroDivisionError
    ELSE Quotient((100 * 100 * c.minor_spacing[2] * c.minor_per_major[2])
                    \div c.grid_scale[2])

\* self.origin_x and self.origin_y of GraphEngine.__init__, in hundredths:
\* idx_yaxis = axis_pos[1] places the x origin, idx_xaxis = axis_pos[0] the y
cfg_origin_x(c) == 100 * (margin + c.minor_spacing[1] * c.minor_per_major[1] * c.axis_pos[2])
cfg_origin_y(c) == 100 * (margin + c.minor_spacing[2] * c.minor_per_major[2] * c.axis_pos[1])

NoScreen == [called |-> FALSE, raised |-> FALSE, x |-> 0, y |-> 0, px |-> 0, py |-> 0]

\* math_to_screen(x, y) of an engine built with configuration c
math_to_screen(c, x, y) ==
    LET ux == cfg_pixels_per_unit_x(c)
        uy == cfg_pixels_per_unit_y(c)
    IN IF ~ux.ok \/ ~uy.ok
       THEN [called |-> TRUE, raised |-> TRUE, x |-> x, y |-> y, px |-> 0, py |-> 0]
       ELSE [called |-> TRUE, raised |-> FALSE, x |-> x, y |-> y,
             px |-> cfg_origin_x(c) + (x * ux.v) \div 100,
             py |-> cfg_origin_y(c) - (y * uy.v) \div 100]

-----------------------------------------------------------------------------
(* The expressions handed to plot_function.  The algebra layer (sympy) is an *)
(* external collaborator; it is modelled by a family of concrete functions.  *)
(*   recip  : k/(x - c)        one simple pole at c (k in hundredths)        *)
(*   recip2 : 1/(x^2 - 1)      simple poles at -1 and 1                      *)
(*   gap    : sqrt(x^2 - 1)    undefined (math domain error) on (-1, 1)      *)
(*   lin    : -x               defined everywhere                            *)
(*   big    : 2000000000       a constant of magnitude >= 1e9                *)
(*   tall   : 1000             a constant far above the canvas               *)
(*   bad    : a string parse_expr rejects                                    *)

Recip(k, c) == [kind |-> "recip", c |-> c, k |-> k]
Recip2 == [kind |-> "recip2", c |-> 0, k |-> 100]
Gap == [kind |-> "gap", c |-> 0, k |-> 100]
Lin == [kind |-> "lin", c |-> 0, k |-> 100]
Big == [kind |-> "big", c |-> 0, k |-> 100]
Tall == [kind |-> "tall", c |-> 0, k |-> 100]
Bad == [kind |-> "bad", c |-> 0, k |-> 100]

ISqrt(n) == CHOOSE r \in 0..1100 : r * r <= n /\ n < (r + 1) * (r + 1)

Ok(v) == [st |-> "ok", v |-> v]
Fail == [st |-> "fail", v |-> 0]
Huge(v) == [st |-> "huge", v |-> v]

\* f(v): the lambdified expression; "fail" is a raised exception
EvalF(e, x) ==
    LET x100 == x \div HUNDREDTH
        n == x100 * x100 - 10000
    IN CASE e.kind = "recip" ->
              IF x = e.c THEN Fail ELSE Ok(Saturate(TDiv(e.k * XS, x - e.c)))
         [] e.kind = "recip2" ->
              IF Abs(x) = XS THEN Fail
              ELSE IF n = 0 THEN Ok(Sign(Abs(x) - XS) * YCap)
              ELSE Ok(Saturate(TDiv(1000000, n)))
         [] e.kind = "gap" ->
              IF Abs(x) < XS THEN Fail ELSE Ok(ISqrt(MaxOf(n, 0)))
         [] e.kind = "lin" -> Ok(-x100)
         [] e.kind = "big" -> Huge(YCap)
         [] e.kind = "tall" -> Ok(100 * 1000)
         [] OTHER -> Fail

\* df(v): the lambdified derivative, in hundredths
EvalDF(e, x) ==
    LET x100 == x \div HUNDREDTH
        n == x100 * x100 - 10000
        q == IF x = e.c THEN 0 ELSE MinOf(XS \div Abs(x - e.c), 100)
        r == IF n = 0 THEN 0 ELSE MinOf(10000 \div Abs(n), 300)
    IN CASE e.kind = "recip" ->
              IF x = e.c THEN Fail ELSE Ok(-(e.k * q * q))
         [] e.kind = "recip2" ->
              IF Abs(x) = XS \/ n = 0 THEN Fail
              ELSE Ok(SatSlope(-((2 * x100 * r * r))))
         [] e.kind = "gap" ->
              IF Abs(x) <= XS \/ ISqrt(MaxOf(n, 0)) = 0 THEN Fail
              ELSE Ok(SatSlope(TDiv(100 * x100, ISqrt(n))))
         [] e.kind = "lin" -> Ok(-100)
         [] e.kind = "big" -> Ok(0)
         [] e.kind = "tall" -> Ok(0)
         [] OTHER -> Fail

\* the sign of the denominator of expr.rewrite(cos).as_numer_denom()
DenomSign(e, x) ==
    CASE e.kind = "recip" -> Sign(x - e.c)
      [] e.kind = "recip2" -> Sign(Abs(x) - XS)
      [] OTHER -> 1

\* denom != 1
HasDenom(e) == e.kind \in {"recip", "recip2"}

\* the real roots of the denominator, as sympy's solve lists them
SolveDenom(e) ==
    CASE e.kind = "recip" -> <<e.c>>
      [] e.kind = "recip2" -> <<-XS, XS>>
      [] OTHER -> <<>>

-----------------------------------------------------------------------------
(* Singularity detection *)

NumScan == 1001       \* np.linspace(domain[0], domain[1], 1001)
BisectIters == 15     \* for _ in range(15)

SetMin(S) == CHOOSE m \in S : \A n \in S : m <= n
RECURSIVE SortedSeq(_)
SortedSeq(S) == IF S = {} THEN <<>>
                ELSE LET m == SetMin(S) IN <<m>> \o SortedSeq(S \ {m})

\* x_scan[i]
ScanPoint(dom, i) == dom[1] + i * ((dom[2] - dom[1]) \div (NumScan - 1))

\* np.where(np.diff(np.sign(y_scan)))[0]
SignChanges(e, dom) ==
    {i \in 0..(NumScan - 2) :
        DenomSign(e, ScanPoint(dom, i)) # DenomSign(e, ScanPoint(dom, i + 1))}

\* the bisection loop on [xa, xb]: n iterations left; yields (xa + xb) / 2
RECURSIVE Bisect(_, _, _, _)
Bisect(e, xa, xb, n) ==
    LET mid == (xa + xb) \div 2
    IN IF n = 0 THEN mid
       ELSE IF DenomSign(e, mid) * DenomSign(e, xa) > 0
            THEN Bisect(e, mid, xb, n - 1)
            ELSE Bisect(e, xa, mid, n - 1)

\* the refined value appended for the sign change at scan index idx
Refine(e, dom, idx) ==
    Bisect(e, ScanPoint(dom, idx), ScanPoint(dom, idx + 1), BisectIters)

\* one iteration of the bisection loop that keeps the half on the side of xa
BisectHalf_SameSide(e, xa, xb) ==
    LET mid == (xa + xb) \div 2
    IN IF DenomSign(e, mid) * DenomSign(e, xa) > 0 THEN <<xa, mid>> ELSE <<mid, xb>>

\* one iteration of the bisection loop: the new <<xa, xb>>
BisectHalf(e, xa, xb) ==
    LET mid == (xa + xb) \div 2
    IN IF DenomSign(e, mid) * DenomSign(e, xa) > 0 THEN <<mid, xb>> ELSE <<xa, mid>>

\* the scan of plot_function step by step: the sign changes still to refine
\* (todo), the pair and interval of the bisection under way, the iterations
\* left, and the refined values appended so far
NoScan == [phase |-> "none", e |-> Bad, dom |-> <<0, 0>>, todo |-> <<>>, idx |-> 0,
           xa |-> 0, xb |-> 0, left |-> 0, found |-> <<>>]

\* the scan begins: x_scan, y_scan and sign_changes
ScanBegin(e, dom) ==
    [NoScan EXCEPT !.phase = "pairs", !.e = e, !.dom = dom,
                   !.todo = IF HasDenom(e) THEN SortedSeq(SignChanges(e, dom)) ELSE <<>>]

\* for idx in sign_changes: the next pair, refined when
\* f_denom(xa) * f_denom(xb) <= 0
ScanPair(sc) ==
    LET idx == Head(sc.todo)
        xa == ScanPoint(sc.dom, idx)
        xb == ScanPoint(sc.dom, idx + 1)
    IN IF DenomSign(sc.e, xa) * DenomSign(sc.e, xb) <= 0
       THEN [sc EXCEPT !.phase = "bisect", !.idx = idx, !.xa = xa, !.xb = xb,
                       !.left = BisectIters]
       ELSE [sc EXCEPT !.todo = Tail(sc.todo)]

\* for _ in range(15): one iteration
ScanIterate(sc) ==
    [sc EXCEPT !.xa = BisectHalf(sc.e, sc.xa, sc.xb)[1],
               !.xb = BisectHalf(sc.e, sc.xa, sc.xb)[2],
               !.left = sc.left - 1]

\* singularities.append((xa + xb) / 2)
ScanAppend(sc) ==
    [sc EXCEPT !.phase = "pairs", !.todo = Tail(sc.todo),
               !.found = Append(sc.found, (sc.xa + sc.xb) \div 2)]

\* singularities = sorted(singularities)
ScanSorted(sc) ==
    [sc EXCEPT !.phase = "done", !.found = SortSeq(sc.found, LAMBDA p, q : p < q)]

\* the singularity list plot_function walks with
DetectSingularities(eng, e, dom) ==
    IF eng = "legacy" THEN SolveDenom(e)
    ELSE IF ~HasDenom(e) THEN <<>>
    ELSE SortedSeq({Refine(e, dom, idx) :
            idx \in {i \in SignChanges(e, dom) :
                       DenomSign(e, ScanPoint(dom, i))
                         * DenomSign(e, ScanPoint(dom, i + 1)) <= 0}})

-----------------------------------------------------------------------------
(* The domain walk of plot_function *)

epsilon == 327680                          \* 0.05
clamp_limit == 50000                       \* clamp(val, limit=50000), pixels

None == [ok |-> FALSE, v |-> 0]
Some(v) == [ok |-> TRUE, v |-> v]
NoPoint == [ok |-> FALSE, x |-> 0, y |-> 0]
Point(x, y) == [ok |-> TRUE, x |-> x, y |-> y]

safe_f(eng, e, x) ==
    LET r == EvalF(e, x)
    IN IF r.st = "ok" THEN Some(r.v)
       ELSE IF r.st = "huge" /\ eng = "legacy" THEN Some(r.v)
       ELSE None

safe_df(e, x) ==
    LET r == EvalDF(e, x) IN IF r.st = "ok" THEN r.v ELSE 0

\* a clamp that lets every value through
clamp_Unbounded(val) == val

clamp(val) == MaxOf(-(100 * clamp_limit), MinOf(100 * clamp_limit, val))

\* the vertical jump (pixel hundredths) from which a step is not rendered
SafetyLimit(eng) ==
    IF eng = "utils" THEN (height_pixels * 9) \div 10 ELSE height_pixels * 100

\* b = min(a + step, domain[1])
StepEnd(x, st, dom) == MinOf(x + st, dom[2])

\* indices of the singularities inside [x, b]
Crossed(x, b, sings) == {i \in 1..Len(sings) : x <= sings[i] /\ sings[i] <= b}

\* a walk that never looks at the singularity list
CheckCrossing_Ignore(eng, x, b, sings) == <<b, b, FALSE>>

\* a walk that goes on from where it stopped before the singularity
CheckCrossing_ResumeAtStop(eng, x, b, sings) ==
    IF Crossed(x, b, sings) = {} THEN <<b, b, FALSE>>
    ELSE LET sing == sings[SetMin(Crossed(x, b, sings))]
         IN <<MaxOf(x, sing - epsilon), MaxOf(x, sing - epsilon), TRUE>>

\* the for-loop over the singularities: <<b, next_start, segment_break>>
CheckCrossing(eng, x, b, sings) ==
    IF Crossed(x, b, sings) = {} THEN <<b, b, FALSE>>
    ELSE LET sing == sings[SetMin(Crossed(x, b, sings))]
             b_stop == sing - epsilon
         IN <<IF eng = "utils" THEN MaxOf(x, b_stop) ELSE b_stop,
              sing + epsilon, TRUE>>

MoveTo(px, py) == [cmd |-> "M", x |-> px, y |-> py, c1x |-> 0, c1y |-> 0,
                   c2x |-> 0, c2y |-> 0, xa |-> 0, xb |-> 0]

\* the "C ..." command of the step [x, b] with end values ya, yb
Bezier(e, x, b, ya, yb) ==
    LET ax_px == math_to_screen_x(x)
        ay_px == math_to_screen_y(ya)
        bx_px == math_to_screen_x(b)
        by_px == math_to_screen_y(yb)
        scale_factor == (bx_px - ax_px) \div 3
        ratio == pixels_per_unit_y \div pixels_per_unit_x
    IN [cmd |-> "C", x |-> bx_px, y |-> by_px,
        c1x |-> ax_px + scale_factor,
        c1y |-> clamp(ay_px - TDiv(safe_df(e, x) * scale_factor * ratio, 100)),
        c2x |-> bx_px - scale_factor,
        c2y |-> clamp(by_px + TDiv(safe_df(e, b) * scale_factor * ratio, 100)),
        xa |-> x, xb |-> b]

\* the flag after a step whose end values could not both be evaluated
FlagAfterDrop(started) == started

\* the flag after a step whose vertical jump reaches the safety limit
FlagAfterJump(eng, started) == IF eng = "utils" THEN FALSE ELSE started

OnCanvas(px, py) == 0 <= px /\ px <= width_pixels /\ 0 <= py /\ py <= height_pixels

\* one iteration of "while a < domain[1]"
WalkBody(eng, e, dom, st, sings, x, path, started, lvp) ==
    LET b0 == StepEnd(x, st, dom)
        cr == CheckCrossing(eng, x, b0, sings)
        b == cr[1]
        ya == safe_f(eng, e, x)
        yb == safe_f(eng, e, b)
        ax_px == math_to_screen_x(x)
        ay_px == math_to_screen_y(ya.v)
        bx_px == math_to_screen_x(b)
        by_px == math_to_screen_y(yb.v)
        evaluated == b > x /\ ya.ok /\ yb.ok
        drawn == evaluated /\ Abs(ay_px - by_px) < SafetyLimit(eng)
        path1 == IF drawn
                 THEN (IF started THEN path ELSE Append(path, MoveTo(ax_px, ay_px)))
                        \o <<Bezier(e, x, b, ya.v, yb.v)>>
                 ELSE path
        started1 == IF ~(b > x) THEN started
                    ELSE IF ~evaluated THEN FlagAfterDrop(started)
                    ELSE IF drawn THEN TRUE
                    ELSE FlagAfterJump(eng, started)
    IN [a |-> cr[2],
        path_data |-> path1,
        current_seg_started |-> IF cr[3] THEN FALSE ELSE started1,
        last_valid_point |-> IF evaluated /\ OnCanvas(bx_px, by_px)
                             THEN Point(bx_px, by_px) ELSE lvp,
        cut |-> evaluated /\ ~drawn]

-----------------------------------------------------------------------------
(* The drawing surface: svgwrite elements, each with the index of the       *)
(* operation that created it and, for a group, its children.                *)

Elem(kind, op) == [kind |-> kind, op |-> op, children |-> <<>>]

\* Box.render of a laid-out text of n glyphs: one text element per CharBox
Glyphs(n, op) == [i \in 1..n |-> Elem("text", op)]

\* container.add(...) on the group at position i of the surface
GroupAdd(d, i, els) == [d EXCEPT ![i].children = @ \o els]

\* render_text_tex_lite(x, y, text, rotation=..., container=None)
RenderTextOnSurface(d, n, rotated, op) ==
    IF rotated
    THEN GroupAdd(Append(d, Elem("g", op)), Len(d) + 1, Glyphs(n, op))
    ELSE d \o Glyphs(n, op)

\* render_text_tex_lite(..., container=<the group at position i>)
RenderTextInGroup(d, i, n, op) == GroupAdd(d, i, Glyphs(n, op))

-----------------------------------------------------------------------------
(* plot_function *)

NoLabel == [given |-> FALSE, glyphs |-> 0]
Label(n) == [given |-> TRUE, glyphs |-> n]

\* a parse whose failure escapes to the caller
ParseOutcome_Raise(e) == IF e.kind = "bad" THEN "raise" ELSE "ok"

\* the try/except around parse_expr, lambdify and diff:
\* "ok" | "abandon" (print and return) | "raise"
ParseOutcome(e) == IF e.kind = "bad" THEN "abandon" ELSE "ok"

\* float(f(v)) followed by math.isfinite, as the legacy label code evaluates it
FiniteAt(e, x) ==
    LET r == EvalF(e, x) IN IF r.st = "fail" THEN None ELSE Some(r.v)

\* the pixel the label is anchored at, or NoPoint when no label is rendered
SelectLabelAnchor(eng, e, dom, lbl, lvp) ==
    IF ~lbl.given THEN NoPoint
    ELSE IF eng = "utils" THEN lvp
    ELSE LET at0 == IF dom[1] <= 0 /\ 0 <= dom[2] THEN FiniteAt(e, 0) ELSE None
             mid_x == (dom[1] + dom[2]) \div 2
             atm == FiniteAt(e, mid_x)
         IN IF at0.ok THEN Point(math_to_screen_x(0), math_to_screen_y(at0.v))
            ELSE IF atm.ok THEN Point(math_to_screen_x(mid_x), math_to_screen_y(atm.v))
            ELSE lvp

show_label_background == TRUE

\* a plot_function that puts its path in front of what is on the surface
PlotOutput_InFront(eng, d, path, anchor, lbl, op) ==
    IF path = <<>> THEN d ELSE <<Elem("path", op)>> \o d

\* what plot_function adds to the surface once the walk is over
PlotOutput(eng, d, path, anchor, lbl, op) ==
    IF path = <<>> THEN d
    ELSE LET d1 == Append(d, Elem("path", op))
             d2 == Append(d1, Elem("g", op))
             g == Len(d2)
             d3 == IF eng = "legacy" /\ show_label_background
                   THEN GroupAdd(d2, g, <<Elem("rect", op)>>) ELSE d2
         IN IF anchor.ok THEN RenderTextInGroup(d3, g, lbl.glyphs, op) ELSE d1

PlotStart(e, dom, st, lbl) ==
    /\ pc = "idle" /\ ~raised
    /\ nops' = nops + 1
    /\ last_op' = [name |-> "plot_function", outcome |-> ParseOutcome(e)]
    /\ UNCHANGED <<engine, dwg, texvars>>
    /\ CASE ParseOutcome(e) = "ok" ->
              /\ pc' = "walk"
              /\ raised' = FALSE
              /\ expr' = e /\ domain' = dom /\ step' = st /\ label_text' = lbl
              /\ singularities' = DetectSingularities(engine, e, dom)
              /\ a' = dom[1]
              /\ path_data' = <<>>
              /\ current_seg_started' = FALSE
              /\ last_valid_point' = NoPoint
              /\ cut_steps' = 0
              /\ label_anchor' = NoPoint
         [] ParseOutcome(e) = "abandon" ->
              /\ pc' = "idle"
              /\ raised' = FALSE
              /\ UNCHANGED <<plotvars, label_anchor>>
         [] OTHER ->
              /\ pc' = "idle"
              /\ raised' = TRUE
              /\ UNCHANGED <<plotvars, label_anchor>>

WalkStep ==
    /\ pc = "walk" /\ a < domain[2]
    /\ LET n == WalkBody(engine, expr, domain, step, singularities, a,
                         path_data, current_seg_started, last_valid_point)
       IN /\ a' = n.a
          /\ path_data' = n.path_data
          /\ current_seg_started' = n.current_seg_started
          /\ last_valid_point' = n.last_valid_point
          /\ cut_steps' = IF n.cut THEN cut_steps + 1 ELSE cut_steps
    /\ UNCHANGED <<engine, dwg, nops, raised, pc, expr, domain, step, label_text,
                   singularities, label_anchor, last_op, texvars>>

PlotFinish ==
    /\ pc = "walk" /\ ~(a < domain[2])
    /\ LET anchor == IF path_data = <<>> THEN NoPoint
                     ELSE SelectLabelAnchor(engine, expr, domain, label_text,
                                            last_valid_point)
       IN /\ label_anchor' = anchor
          /\ dwg' = PlotOutput(engine, dwg, path_data, anchor, label_text, nops)
    /\ pc' = "idle"
    /\ UNCHANGED <<engine, nops, raised, plotvars, last_op, texvars>>

-----------------------------------------------------------------------------
(* The other drawing operations of a graph engine *)

RECURSIVE Concat(_, _, _, _)
\* row(lo, op) \o row(lo + 1, op) \o ... \o row(hi, op)
Concat(row(_, _), lo, hi, op) ==
    IF lo > hi THEN <<>> ELSE row(lo, op) \o Concat(row, lo + 1, hi, op)

IsMajor(i) == i % minor_per_major = 0
OnAxis(i) == i = axis_pos * minor_per_major

\* one iteration of a grid loop: the grid line, then the tick of a major line
GridRow(i, op) ==
    <<Elem("line", op)>>
      \o (IF IsMajor(i) /\ ~OnAxis(i) THEN <<Elem("line", op)>> ELSE <<>>)

\* the axis line and its arrowhead
AxisElems(op) == <<Elem("line", op), Elem("polygon", op)>>

draw_grid_lines(d, op) ==
    d \o Concat(GridRow, 0, grid_cols * minor_per_major, op)
      \o Concat(GridRow, 0, grid_cols * minor_per_major, op)
      \o AxisElems(op) \o AxisElems(op)

\* glyph boxes of the number label of major line i: the digits, and the minus sign
XLabelGlyphs(i) == IF (i \div minor_per_major - axis_pos) * grid_scale < 10 THEN 1 ELSE 2
YLabelGlyphs(i) == 1 + XLabelGlyphs(i)

\* the white rectangle and the number of one x-axis major line
XNumberRow(eng, i, op) ==
    IF IsMajor(i) /\ (eng = "utils" \/ ~OnAxis(i))
    THEN <<Elem("rect", op)>> \o Glyphs(XLabelGlyphs(i), op) ELSE <<>>
XNumberRowUtils(i, op) == XNumberRow("utils", i, op)
XNumberRowLegacy(i, op) == XNumberRow("legacy", i, op)

\* the white rectangle and the number of one y-axis major line
YNumberRow(i, op) ==
    IF IsMajor(i) /\ ~OnAxis(i)
    THEN <<Elem("rect", op)>> \o Glyphs(YLabelGlyphs(i), op) ELSE <<>>

draw_axis_labels(eng, d, op) ==
    d \o (IF eng = "utils"
          THEN Concat(XNumberRowUtils, 0, grid_cols * minor_per_major, op)
          ELSE Concat(XNumberRowLegacy, 0, grid_cols * minor_per_major, op))
      \o Concat(YNumberRow, 0, grid_cols * minor_per_major, op)

\* a feature: on or off the canvas, its marker style and its label
Feature(on, marker, lbl) == [on |-> on, marker_style |-> marker, label |-> lbl]
FeatureChoices ==
    {Feature(FALSE, "filled", Label(1)),
     Feature(TRUE, "hollow", NoLabel),
     Feature(TRUE, "cross", Label(1))}

MarkerElems(ft, op) ==
    CASE ft.marker_style \in {"filled", "hollow"} -> <<Elem("circle", op)>>
      [] ft.marker_style = "cross" -> <<Elem("line", op), Elem("line", op)>>
      [] OTHER -> <<>>

\* the loop body of draw_features for one feature
DrawFeature(d, ft, op) ==
    IF ~ft.on THEN d
    ELSE LET d1 == d \o MarkerElems(ft, op)
             d2 == Append(d1, Elem("g", op))
             g == Len(d2)
             d3 == IF show_label_background
                   THEN GroupAdd(d2, g, <<Elem("rect", op)>>) ELSE d2
         IN IF ft.label.given
            THEN RenderTextInGroup(d3, g, ft.label.glyphs, op) ELSE d1

RECURSIVE draw_features(_, _, _)
draw_features(d, features, op) ==
    IF features = <<>> THEN d
    ELSE draw_features(DrawFeature(d, Head(features), op), Tail(features), op)

FeatureLists == UNION {[1..n -> FeatureChoices] : n \in 0..MaxFeatures}

-----------------------------------------------------------------------------
(* TexEngine: the typesetting engine.  A text is a sequence of characters,  *)
(* a token a non-empty sequence of characters; "utils" and "legacy" name    *)
(* src/utils/text_renderer.py and src/text_renderer.py.                      *)

Lower == {"a", "b", "c", "d", "e", "f", "g", "h", "i", "j", "k", "l", "m",
          "n", "o", "p", "q", "r", "s", "t", "u", "v", "w", "x", "y", "z"}
Upper == {"A", "B", "C", "D", "E", "F", "G", "H", "I", "J", "K", "L", "M",
          "N", "O", "P", "Q", "R", "S", "T", "U", "V", "W", "X", "Y", "Z"}
Digit == {"0", "1", "2", "3", "4", "5", "6", "7", "8", "9"}
\* the glyphs that are no ASCII character: Greek letters and U+2212
Greek == {"<pi>", "<theta>", "<alpha>", "<beta>", "<gamma>", "<Delta>"}
MinusSign == "<minus>"

\* [a-zA-Z]
IsLetter(c) == c \in Lower \cup Upper
\* the fourth alternative of token_re
IsPlainChar(tex, c) ==
    \/ IsLetter(c) \/ c \in Digit
    \/ c \in {"+", "-", "=", ".", "(", ")", " ", "|"}
    \/ (tex = "utils" /\ c = ",")

FuncNames == {<<"s", "i", "n">>, <<"c", "o", "s">>, <<"t", "a", "n">>,
              <<"c", "s", "c">>, <<"s", "e", "c">>, <<"c", "o", "t">>,
              <<"l", "n">>, <<"l", "o", "g">>, <<"e", "x", "p">>}

\* the last index of the run of letters that starts at j
RECURSIVE RunEnd(_, _)
RunEnd(text, j) ==
    IF j < Len(text) /\ IsLetter(text[j + 1]) THEN RunEnd(text, j + 1) ELSE j

\* the function names that match the text at position i
FuncAt(text, i) ==
    {f \in FuncNames : i + Len(f) - 1 <= Len(text)
                         /\ SubSeq(text, i, i + Len(f) - 1) = f}

\* a token_re whose last alternative matches any character
MatchEnd_AnyChar(tex, text, i) ==
    IF text[i] = "\\" /\ i < Len(text) /\ IsLetter(text[i + 1])
    THEN RunEnd(text, i + 1)
    ELSE i

\* token_re at position i: the index of the last character of the match, or
\* 0 when no alternative matches there
MatchEnd(tex, text, i) ==
    IF text[i] = "\\" /\ i < Len(text) /\ IsLetter(text[i + 1])
    THEN RunEnd(text, i + 1)
    ELSE IF tex = "utils" /\ FuncAt(text, i) # {}
    THEN LET f == CHOOSE g \in FuncAt(text, i) : TRUE
         IN i + Len(f) - 1
    ELSE IF text[i] \in {"{", "}", "^", "_"} \/ IsPlainChar(tex, text[i])
    THEN i
    ELSE 0

\* _tokenize: the matches of token_re from position i on, left to right;
\* a character no alternative matches is skipped
RECURSIVE tokenize(_, _, _)
tokenize(tex, text, i) ==
    IF i > Len(text) THEN <<>>
    ELSE LET e == MatchEnd(tex, text, i)
         IN IF e = 0 THEN tokenize(tex, text, i + 1)
            ELSE <<SubSeq(text, i, e)>> \o tokenize(tex, text, e + 1)

\* the positions finditer passes over without a match, from position i on
RECURSIVE Skipped(_, _, _)
Skipped(tex, text, i) ==
    IF i > Len(text) THEN {}
    ELSE LET e == MatchEnd(tex, text, i)
         IN IF e = 0 THEN {i} \cup Skipped(tex, text, i + 1)
            ELSE Skipped(tex, text, e + 1)

\* parse-tree nodes: a and b hold the node's sub-nodes
Node(type, val, na, nb) == [type |-> type, val |-> val, a |-> na, b |-> nb]
SpaceNode == Node("space", <<>>, <<>>, <<>>)
CharNode(val) == Node("char", val, <<>>, <<>>)
TextNode(val) == Node("text", val, <<>>, <<>>)
FuncNode(val) == Node("func", val, <<>>, <<>>)
GroupNode(content) == Node("group", <<>>, content, <<>>)
SupNode(base, sup) == Node("sup", <<>>, <<base>>, <<sup>>)
FracNode(num, den) == Node("frac", <<>>, <<num>>, <<den>>)
SqrtNode(content) == Node("sqrt", <<>>, <<content>>, <<>>)

IsCommand(tok) == tok[1] = "\\"
Cmd(name) == <<"\\">> \o name

\* the command names _parse_group sets upright as function names
CmdFuncs == {<<"s", "i", "n">>, <<"c", "o", "s">>, <<"t", "a", "n">>,
             <<"l", "n">>, <<"l", "o", "g">>, <<"e", "x", "p">>}
\* cmd in ['pi', 'theta', 'alpha', 'beta', 'gamma', 'Delta']
GreekNames == {<<"p", "i">>, <<"t", "h", "e", "t", "a">>, <<"a", "l", "p", "h", "a">>,
               <<"b", "e", "t", "a">>, <<"g", "a", "m", "m", "a">>,
               <<"D", "e", "l", "t", "a">>}
\* the Greek dictionary of _parse_group; <<>> stands for a missing key
GroupGreek(cmd) ==
    CASE cmd = <<"p", "i">> -> <<"<pi>">>
      [] cmd = <<"t", "h", "e", "t", "a">> -> <<"<theta>">>
      [] cmd = <<"a", "l", "p", "h", "a">> -> <<"<alpha>">>
      [] cmd = <<"b", "e", "t", "a">> -> <<"<beta>">>
      [] cmd = <<"g", "a", "m", "m", "a">> -> <<"<gamma>">>
      [] cmd = <<"D", "e", "l", "t", "a">> -> <<"<Delta>">>
      [] OTHER -> <<>>
\* cmd in ['pi', 'theta', 'alpha', 'beta'] of _parse_next_atom
AtomGreekNames == {<<"p", "i">>, <<"t", "h", "e", "t", "a">>,
                   <<"a", "l", "p", "h", "a">>, <<"b", "e", "t", "a">>}
\* {'pi': ..., 'theta': ...}.get(cmd, '?')
AtomGreek(cmd) ==
    CASE cmd = <<"p", "i">> -> <<"<pi>">>
      [] cmd = <<"t", "h", "e", "t", "a">> -> <<"<theta>">>
      [] OTHER -> <<"?">>

\* results: raised is TRUE when an exception left the function
Parsed(nodes, rest, closed) ==
    [nodes |-> nodes, rest |-> rest, closed |-> closed, raised |-> FALSE]
ParseRaised == [nodes |-> <<>>, rest |-> <<>>, closed |-> FALSE, raised |-> TRUE]
Atom(node, rest) == [node |-> node, rest |-> rest, raised |-> FALSE]
AtomRaised == [node |-> SpaceNode, rest |-> <<>>, raised |-> TRUE]

\* a '^' that finds no node to raise is skipped: "if not nodes: continue"
CaretSkipped_Never(nodes) == FALSE

CaretSkipped(nodes) == nodes = <<>>

Front(s) == SubSeq(s, 1, Len(s) - 1)
Last(s) == s[Len(s)]

RECURSIVE parse_group(_, _, _, _)
RECURSIVE parse_next_atom(_, _)

\* a _parse_next_atom that reads tokens[0] without popping it
parse_next_atom_NoPop(tex, tokens) ==
    IF tokens = <<>> THEN Atom(CharNode(<<"?">>), <<>>)
    ELSE Atom(CharNode(Head(tokens)), tokens)

\* _parse_next_atom(tokens): the atom and the tokens left
parse_next_atom(tex, tokens) ==
    IF tokens = <<>> THEN Atom(CharNode(<<"?">>), <<>>)
    ELSE LET tok == Head(tokens)
             rest == Tail(tokens)
         IN IF tok = <<"{">>
            THEN LET g == parse_group(tex, <<>>, rest, TRUE)
                 IN IF g.raised THEN AtomRaised
                    ELSE Atom(GroupNode(g.nodes), g.rest)
            ELSE IF IsCommand(tok)
            THEN IF Tail(tok) \in AtomGreekNames
                 THEN Atom(CharNode(AtomGreek(Tail(tok))), rest)
                 ELSE Atom(TextNode(Tail(tok)), rest)
            ELSE Atom(CharNode(tok), rest)

\* a superscript that is always the one token after the '^'
ParseSup_OneToken(tex, rest) == Atom(CharNode(Head(rest)), Tail(rest))

\* the superscript that follows a '^': its node and the tokens left
ParseSup(tex, rest) ==
    LET next_tok == Head(rest)
        after == Tail(rest)
    IN IF next_tok = <<"{">>
       THEN LET g == parse_group(tex, <<>>, after, TRUE)
            IN IF g.raised THEN AtomRaised ELSE Atom(GroupNode(g.nodes), g.rest)
       ELSE IF IsCommand(next_tok)
       THEN LET at == parse_next_atom(tex, <<next_tok>> \o after)
            IN IF at.raised THEN AtomRaised ELSE Atom(at.node, after)
       ELSE Atom(CharNode(next_tok), after)

\* a command branch in which \frac takes one atom only
ParseCommand_FracOneAtom(tex, nodes, cmd, rest) ==
    LET num == parse_next_atom(tex, rest)
    IN IF num.raised THEN ParseRaised
       ELSE IF cmd = <<"f", "r", "a", "c">>
       THEN Parsed(Append(nodes, FracNode(num.node, CharNode(<<"?">>))), num.rest, FALSE)
       ELSE IF cmd = <<"s", "q", "r", "t">>
       THEN Parsed(Append(nodes, SqrtNode(num.node)), num.rest, FALSE)
       ELSE Parsed(Append(nodes, TextNode(cmd)), rest, FALSE)

\* the branch of _parse_group for a backslash command: the nodes and tokens after it
ParseCommand(tex, nodes, cmd, rest) ==
    IF cmd = <<"f", "r", "a", "c">>
    THEN LET num == parse_next_atom(tex, rest)
             den == parse_next_atom(tex, num.rest)
         IN IF num.raised \/ den.raised THEN ParseRaised
            ELSE Parsed(Append(nodes, FracNode(num.node, den.node)), den.rest, FALSE)
    ELSE IF cmd = <<"s", "q", "r", "t">>
    THEN LET content == parse_next_atom(tex, rest)
         IN IF content.raised THEN ParseRaised
            ELSE Parsed(Append(nodes, SqrtNode(content.node)), content.rest, FALSE)
    ELSE IF cmd \in CmdFuncs THEN Parsed(Append(nodes, FuncNode(cmd)), rest, FALSE)
    ELSE IF cmd \in GreekNames
    THEN IF GroupGreek(cmd) = <<>> THEN ParseRaised
         ELSE Parsed(Append(nodes, CharNode(GroupGreek(cmd))), rest, FALSE)
    ELSE Parsed(Append(nodes, TextNode(cmd)), rest, FALSE)

\* what one pass of the loop "while tokens" leaves: the nodes, the tokens
\* left, and whether the pass left the loop (return or break)
Pass(nodes, rest) ==
    [nodes |-> nodes, rest |-> rest, stop |-> FALSE, closed |-> FALSE, raised |-> FALSE]
PassStop(nodes, rest, closed) ==
    [nodes |-> nodes, rest |-> rest, stop |-> TRUE, closed |-> closed, raised |-> FALSE]
PassRaised ==
    [nodes |-> <<>>, rest |-> <<>>, stop |-> TRUE, closed |-> FALSE, raised |-> TRUE]

\* one pass of the loop of _parse_group, from "tok = tokens.pop(0)" on
GroupPass(tex, nodes, tokens, inside_brace) ==
    LET tok == Head(tokens)
        rest == Tail(tokens)
    IN IF tok = <<" ">>
       THEN Pass(Append(nodes, SpaceNode), rest)
       ELSE IF tok = <<"}">>
       THEN IF inside_brace THEN PassStop(nodes, rest, TRUE)
            ELSE Pass(nodes, rest)
       ELSE IF tok = <<"{">>
       THEN LET g == parse_group(tex, <<>>, rest, TRUE)
            IN IF g.raised THEN PassRaised
               ELSE Pass(Append(nodes, GroupNode(g.nodes)), g.rest)
       ELSE IF tok \in {Cmd(<<"l", "e", "f", "t">>), Cmd(<<"r", "i", "g", "h", "t">>)}
       THEN Pass(nodes, rest)
       ELSE IF tex = "utils" /\ tok \in FuncNames
       THEN Pass(Append(nodes, FuncNode(tok)), rest)
       ELSE IF tok = <<"^">>
       THEN IF CaretSkipped(nodes)
            THEN Pass(nodes, rest)
            ELSE IF rest = <<>> THEN PassStop(nodes, <<>>, FALSE)
            ELSE LET s == ParseSup(tex, rest)
                 IN IF s.raised \/ nodes = <<>> THEN PassRaised
                    ELSE Pass(Append(Front(nodes), SupNode(Last(nodes), s.node)),
                              s.rest)
       ELSE IF IsCommand(tok)
       THEN LET c == ParseCommand(tex, nodes, Tail(tok), rest)
            IN IF c.raised THEN PassRaised
               ELSE Pass(c.nodes, c.rest)
       ELSE Pass(Append(nodes, CharNode(tok)), rest)

\* _parse_group(tokens, inside_brace), with the nodes collected so far: the
\* loop goes on from what a pass left (p is bound to the value of the pass)
parse_group(tex, nodes, tokens, inside_brace) ==
    IF tokens = <<>> THEN Parsed(nodes, <<>>, FALSE)
    ELSE LET After(p) ==
                 IF p.raised THEN ParseRaised
                 ELSE IF p.stop THEN Parsed(p.nodes, p.rest, p.closed)
                 ELSE parse_group(tex, p.nodes, p.rest, inside_brace)
         IN CHOOSE r \in {After(p) : p \in {GroupPass(tex, nodes, tokens, inside_brace)}} :
                TRUE

\* The calls a parse makes.  A call is the function, the list it was handed
\* and the list it left; a pass of the loop of _parse_group counts as a call
\* of "pass".
ParserCall(fn, before, after) == [fn |-> fn, before |-> before, after |-> after]

RECURSIVE GroupCalls(_, _, _, _)
RECURSIVE AtomCalls(_, _)

\* the calls one pass of _parse_group makes: a group after '{', the
\* superscript after '^', the arguments of \frac and \sqrt
PassCalls(tex, nodes, tokens) ==
    LET tok == Head(tokens)
        rest == Tail(tokens)
    IN IF tok = <<"{">> THEN GroupCalls(tex, <<>>, rest, TRUE)
       ELSE IF tok = <<"^">>
       THEN IF CaretSkipped(nodes) \/ rest = <<>> THEN {}
            ELSE IF Head(rest) = <<"{">> THEN GroupCalls(tex, <<>>, Tail(rest), TRUE)
            ELSE IF IsCommand(Head(rest)) THEN AtomCalls(tex, <<Head(rest)>> \o Tail(rest))
            ELSE {}
       ELSE IF tok = Cmd(<<"f", "r", "a", "c">>)
       THEN AtomCalls(tex, rest) \cup AtomCalls(tex, parse_next_atom(tex, rest).rest)
       ELSE IF tok = Cmd(<<"s", "q", "r", "t">>)
       THEN AtomCalls(tex, rest)
       ELSE {}

\* the calls of _parse_group(tokens, inside_brace): its passes and theirs
GroupCalls(tex, nodes, tokens, inside_brace) ==
    IF tokens = <<>> THEN {}
    ELSE LET p == GroupPass(tex, nodes, tokens, inside_brace)
         IN {ParserCall("pass", tokens, p.rest)}
              \cup PassCalls(tex, nodes, tokens)
              \cup IF p.stop THEN {}
                   ELSE GroupCalls(tex, p.nodes, p.rest, inside_brace)

\* the calls of _parse_next_atom(tokens): itself and the group after a '{'
AtomCalls(tex, tokens) ==
    {ParserCall("atom", tokens, parse_next_atom(tex, tokens).rest)}
      \cup IF tokens # <<>> /\ Head(tokens) = <<"{">>
           THEN GroupCalls(tex, <<>>, Tail(tokens), TRUE)
           ELSE {}

-----------------------------------------------------------------------------
(* Boxes and _layout.  Lengths are hundredths of a pixel, table values and  *)
(* factors thousandths.                                                      *)

Times(len, thousandths) == (len * thousandths) \div 1000

LINE_THICKNESS_FACTOR == 40

\* LEFT_OVERFLOW_MAP; 0 for a character that is no key
LEFT_OVERFLOW_MAP(c) ==
    CASE c = "y" -> 200 [] c = "j" -> 150 [] c = "J" -> 100 [] c = "f" -> 100
      [] OTHER -> 0

\* ITALIC_CORRECTION of the legacy engine
ITALIC_CORRECTION(c) ==
    CASE c \in {"r", "f"} -> 150 [] c = "j" -> 100 [] c \in {"v", "w", "y"} -> 50
      [] OTHER -> 0

\* CHAR_WIDTHS.get(char, 0.5) of the legacy engine
CHAR_WIDTHS(c) ==
    CASE c \in {"a", "c", "e", "z", "?", "<theta>", "<gamma>"} -> 450
      [] c \in {"f", "(", ")", "[", "]", "{", "}", "*"} -> 350
      [] c = "i" -> 320
      [] c \in {"j", "l", "t", "I", "|", "!"} -> 300
      [] c = "m" -> 800
      [] c \in {"n", "y", "F", "S"} -> 550
      [] c = "r" -> 380
      [] c = "s" -> 420
      [] c \in {"w", "A", "D", "G", "H", "K", "N", "O", "Q", "U", "V", "X", "Y"} -> 700
      [] c \in {"B", "C", "R"} -> 650
      [] c \in {"E", "L", "P", "T", "Z", "<Delta>"} -> 600
      [] c = "J" -> 400
      [] c = "M" -> 850
      [] c = "W" -> 900
      [] c \in {".", ",", ";", ":", " "} -> 250
      [] c \in {"+", "=", MinusSign} -> 560
      [] c = "-" -> 330
      [] c \in {"/", "\\"} -> 280
      [] OTHER -> 500

\* the tables src/utils/text_renderer.py is left with when font_metrics cannot
\* be imported: empty dictionaries
CHAR_WIDTHS_ITALIC == <<>>
CHAR_WIDTHS_NORMAL == <<>>
KERNING_ITALIC == <<>>
KERNING_NORMAL == <<>>
Fallback == [KERNING_ITALIC |-> KERNING_ITALIC, KERNING_NORMAL |-> KERNING_NORMAL]

\* a pair of characters as the key of a kerning table
Pair(l, r) == <<<<l>>, <<r>>>>

\* kerning tables as a font_metrics module provides them (thousandths of the
\* font size): pairs of letters, of digits, and pairs of a letter and a digit
FontMetrics ==
    [KERNING_ITALIC |-> (Pair("x", "y") :> -50) @@ (Pair("y", "y") :> 30)
                          @@ (Pair("x", "2") :> 40),
     KERNING_NORMAL |-> (Pair("s", "i") :> -20) @@ (Pair("2", "2") :> 60)
                          @@ (Pair("x", "2") :> 40) @@ (Pair("2", "x") :> -30)]

\* table.get(key, default)
Get(table, key, default) == IF key \in DOMAIN table THEN table[key] ELSE default

\* get_char_width(char, font_size, is_math); char is a token
get_char_width(tex, char, font_size, is_math) ==
    IF tex = "legacy"
    THEN Times(font_size, IF Len(char) = 1 THEN CHAR_WIDTHS(char[1]) ELSE 500)
    ELSE IF is_math THEN Times(font_size, Get(CHAR_WIDTHS_ITALIC, char, 500))
    ELSE Times(font_size, Get(CHAR_WIDTHS_NORMAL, char, 500))

\* get_kerning(left_char, right_char, font_size, is_math)
get_kerning(left_char, right_char, font_size, is_math) ==
    IF is_math
    THEN Times(font_size, Get(metrics.KERNING_ITALIC, <<left_char, right_char>>, 0))
    ELSE Times(font_size, Get(metrics.KERNING_NORMAL, <<left_char, right_char>>, 0))

Box(w, asc, desc) ==
    [kind |-> "Box", width |-> w, ascent |-> asc, descent |-> desc,
     left_overflow |-> 0, char |-> <<>>, font_size |-> 0, is_math |-> FALSE,
     children |-> <<>>, line_thick |-> 0, axis_height |-> 0, tick_width |-> 0]
SpaceBox(w) == [Box(w, 0, 0) EXCEPT !.kind = "SpaceBox"]
CharBox(w, asc, desc, lo, char, fs, is_math) ==
    [Box(w, asc, desc) EXCEPT !.kind = "CharBox", !.left_overflow = lo,
                              !.char = char, !.font_size = fs, !.is_math = is_math]
RowBox(w, asc, desc, lo, children) ==
    [Box(w, asc, desc) EXCEPT !.kind = "RowBox", !.left_overflow = lo,
                              !.children = children]
\* children: <<numerator, denominator>>
FracBox(w, asc, desc, num, den, line_thick, axis_height) ==
    [Box(w, asc, desc) EXCEPT !.kind = "FracBox", !.children = <<num, den>>,
                              !.line_thick = line_thick, !.axis_height = axis_height]
\* children: <<content>>
SqrtBox(w, asc, desc, content, tick_width, line_thick) ==
    [Box(w, asc, desc) EXCEPT !.kind = "SqrtBox", !.children = <<content>>,
                              !.tick_width = tick_width, !.line_thick = line_thick]
\* children: <<base, sup>>
SupBox(w, asc, desc, base, sup) ==
    [Box(w, asc, desc) EXCEPT !.kind = "SupBox", !.children = <<base, sup>>]

\* txt.isalpha()
IsAlpha(val) == val # <<>> /\ \A i \in 1..Len(val) : IsLetter(val[i]) \/ val[i] \in Greek

\* get_vert_metrics(char, fsize): <<ascent, descent>>
get_vert_metrics(char, fsize) ==
    IF Len(char) = 1 /\ char[1] \in ({"(", ")", "[", "]", "{", "}", "|", "/", "\\",
                                       "b", "d", "f", "h", "k", "l", "t"}
                                        \cup Digit \cup Upper)
    THEN <<Times(fsize, 800), Times(fsize, 250)>>
    ELSE IF Len(char) = 1 /\ char[1] \in {"g", "p", "q", "y"}
    THEN <<Times(fsize, 550), Times(fsize, 350)>>
    ELSE IF Len(char) = 1 /\ char[1] \in {"a", "c", "e", "m", "n", "o", "r", "s",
                                            "u", "v", "w", "x", "z"}
    THEN <<Times(fsize, 550), 0>>
    ELSE <<Times(fsize, 800), Times(fsize, 250)>>

RECURSIVE SeqSum(_)
SeqSum(s) == IF s = <<>> THEN 0 ELSE Head(s) + SeqSum(Tail(s))
RECURSIVE SeqMax(_)
SeqMax(s) == IF Len(s) = 1 THEN s[1] ELSE MaxOf(Head(s), SeqMax(Tail(s)))

\* to_list(n)
to_list(n) == IF n.type = "group" THEN n.a ELSE <<n>>

\* get_last_char(b) of the legacy engine; <<>> stands for None
RECURSIVE get_last_char(_)
get_last_char(b) ==
    IF b.kind = "CharBox" THEN b.char
    ELSE IF b.kind = "RowBox" /\ b.children # <<>>
    THEN get_last_char(Last(b.children))
    ELSE <<>>

\* the width added to the base box of a superscript
Nudge(tex, base_box, font_size) ==
    IF tex = "legacy" /\ Len(get_last_char(base_box)) = 1
    THEN Times(font_size, ITALIC_CORRECTION(get_last_char(base_box)[1]))
    ELSE 0

\* a 'char' branch that knows no operators: one CharBox for every character
CharBoxes_NoOperators(tex, txt, font_size) ==
    <<CharBox(get_char_width(tex, txt, font_size, IsAlpha(txt)),
              get_vert_metrics(txt, font_size)[1], get_vert_metrics(txt, font_size)[2],
              0, txt, font_size, IsAlpha(txt))>>

\* the boxes one 'char' node appends
CharBoxes(tex, txt, font_size) ==
    IF txt \in {<<"=">>, <<"+">>, <<"-">>}
    THEN LET display_char == IF txt = <<"-">> THEN <<MinusSign>> ELSE txt
         IN <<SpaceBox(Times(font_size, 150)),
              CharBox(get_char_width(tex, display_char, font_size, FALSE),
                      Times(font_size, 800), Times(font_size, 200), 0,
                      display_char, font_size, FALSE),
              SpaceBox(Times(font_size, 150))>>
    ELSE LET is_math == IsAlpha(txt)
             vm == get_vert_metrics(txt, font_size)
             l_off == IF is_math /\ Len(txt) = 1
                      THEN Times(font_size, LEFT_OVERFLOW_MAP(txt[1])) ELSE 0
         IN <<CharBox(get_char_width(tex, txt, font_size, is_math),
                      vm[1], vm[2], l_off, txt, font_size, is_math)>>

\* the boxes a 'text' or 'func' node appends: one upright CharBox per character
TextBoxes(tex, txt, font_size) ==
    [i \in 1..Len(txt) |->
        LET vm == get_vert_metrics(<<txt[i]>>, font_size)
        IN CharBox(get_char_width(tex, <<txt[i]>>, font_size, FALSE),
                   vm[1], vm[2], 0, <<txt[i]>>, font_size, FALSE)]

RECURSIVE layout(_, _, _)

\* the boxes the loop of _layout appends for one node
NodeBoxes(tex, node, font_size) ==
    CASE node.type = "space" -> <<SpaceBox(Times(font_size, 200))>>
      [] node.type = "char" -> CharBoxes(tex, node.val, font_size)
      [] node.type \in {"text", "func"} -> TextBoxes(tex, node.val, font_size)
      [] node.type = "group" -> <<layout(tex, node.a, font_size)>>
      [] node.type = "frac" ->
           LET num_box == layout(tex, to_list(node.a[1]), Times(font_size, 800))
               den_box == layout(tex, to_list(node.b[1]), Times(font_size, 800))
               axis_h == Times(font_size, 280)
               thick == Times(font_size, LINE_THICKNESS_FACTOR)
               padding == thick * 2
           IN <<FracBox(MaxOf(num_box.width, den_box.width) + 600,
                        axis_h + padding + num_box.descent + num_box.ascent,
                        den_box.ascent + den_box.descent + padding - axis_h,
                        num_box, den_box, thick, axis_h)>>
      [] node.type = "sqrt" ->
           LET content == layout(tex, to_list(node.a[1]), font_size)
               tick_w == Times(font_size, 500)
               line_thick == Times(font_size, LINE_THICKNESS_FACTOR)
               pad_right == line_thick * 2
           IN <<SqrtBox(content.width + tick_w + pad_right,
                        content.ascent + 600, content.descent, content,
                        tick_w, line_thick)>>
      [] node.type = "sup" ->
           LET resolved == layout(tex, to_list(node.a[1]), font_size)
               sup_box == layout(tex, to_list(node.b[1]), Times(font_size, 700))
               base_box == [resolved EXCEPT
                              !.width = @ + Nudge(tex, resolved, font_size)]
           IN <<SupBox(base_box.width + sup_box.width,
                       MaxOf(base_box.ascent, sup_box.ascent + base_box.ascent \div 2),
                       base_box.descent, base_box, sup_box)>>
      [] OTHER -> <<>>

RECURSIVE LayoutBoxes(_, _, _)
LayoutBoxes(tex, nodes, font_size) ==
    IF nodes = <<>> THEN <<>>
    ELSE NodeBoxes(tex, Head(nodes), font_size)
           \o LayoutBoxes(tex, Tail(nodes), font_size)

\* _layout(nodes, font_size)
layout(tex, nodes, font_size) ==
    LET boxes == LayoutBoxes(tex, nodes, font_size)
    IN IF boxes = <<>> THEN Box(0, 0, 0)
       ELSE RowBox(SeqSum([i \in 1..Len(boxes) |-> boxes[i].width]),
                   SeqMax([i \in 1..Len(boxes) |-> boxes[i].ascent]),
                   SeqMax([i \in 1..Len(boxes) |-> boxes[i].descent]),
                   IF boxes[1].left_overflow > 0 THEN boxes[1].left_overflow ELSE 0,
                   boxes)

\* the box parse_layout returns, or the exception it leaves with
NoBox == [Box(0, 0, 0) EXCEPT !.kind = "none"]
RaisedBox == [Box(0, 0, 0) EXCEPT !.kind = "raised"]

\* parse_layout(text, font_size)
parse_layout(tex, text, font_size) ==
    LET p == parse_group(tex, <<>>, tokenize(tex, text, 1), FALSE)
    IN IF p.raised THEN RaisedBox ELSE layout(tex, p.nodes, font_size)

\* a TexEngine that remembers its calls: every call widens the next result
measure_Remembering(tex, text, font_size) ==
    LET box == parse_layout(tex, text, font_size)
    IN [raised |-> box = RaisedBox,
        size |-> <<box.width + Len(measured), box.ascent + box.descent>>]

\* measure(text, font_size): (width, height), or the exception of parse_layout
measure(tex, text, font_size) ==
    LET box == parse_layout(tex, text, font_size)
    IN [raised |-> box = RaisedBox,
        size |-> <<box.width, box.ascent + box.descent>>]

-----------------------------------------------------------------------------
(* Box.render of src/utils/text_renderer.py: the elements a box adds to the  *)
(* drawing.  Coordinates are doubled hundredths of a pixel, so that the      *)
(* halves of render (width / 2, pad_right / 2) are exact.                    *)

\* dwg.text(char, insert=(x, y), font_size, font_style)
TextAt(x, y, b) ==
    [kind |-> "text", points |-> <<<<x, y>>>>, char |-> b.char,
     font_size |-> b.font_size, italic |-> b.is_math, stroke_width |-> 0]
\* dwg.line(start, end, stroke_width)
LineAt(px, py, qx, qy, thick) ==
    [kind |-> "line", points |-> <<<<px, py>>, <<qx, qy>>>>, char |-> <<>>,
     font_size |-> 0, italic |-> FALSE, stroke_width |-> thick]
\* dwg.path with its M and L points
PathAt(points, thick) ==
    [kind |-> "path", points |-> points, char |-> <<>>,
     font_size |-> 0, italic |-> FALSE, stroke_width |-> thick]

\* a kerning logic that looks up every pair of adjacent CharBoxes, whatever
\* their modes
Kerning_AnyMode(children, i) ==
    IF i > 1 /\ children[i - 1].kind = "CharBox" /\ children[i].kind = "CharBox"
    THEN get_kerning(children[i - 1].char, children[i].char,
                     children[i].font_size, children[i].is_math)
    ELSE 0

\* the kerning logic of RowBox.render: what is added to curr_x before child i
Kerning(children, i) ==
    IF i > 1 /\ children[i - 1].kind = "CharBox" /\ children[i].kind = "CharBox"
       /\ children[i - 1].is_math = children[i].is_math
    THEN get_kerning(children[i - 1].char, children[i].char,
                     children[i].font_size, children[i].is_math)
    ELSE 0

\* a fraction whose numerator is set on the baseline of the bar
NumBaseline_OnBar(b, line_y) == line_y - 2 * b.children[1].descent

\* num_baseline of FracBox.render
NumBaseline(b, line_y) == line_y - 2 * (b.line_thick * 2) - 2 * b.children[1].descent

\* a superscript set on the baseline of its base
SupBaseline_NotRaised(b, y) == y

\* the baseline SupBox.render gives the superscript
SupBaseline(b, y) == y - 2 * Times(b.children[1].ascent, 400)

RECURSIVE render(_, _, _)
RECURSIVE RenderRow(_, _, _, _)

\* the loop of RowBox.render from child i on, curr_x being cx
RenderRow(children, i, cx, y) ==
    IF i > Len(children) THEN <<>>
    ELSE render(children[i], cx + 2 * Kerning(children, i), y)
           \o RenderRow(children, i + 1,
                        cx + 2 * Kerning(children, i) + 2 * children[i].width, y)

\* box.render(dwg, x, y)
render(b, x, y) ==
    CASE b.kind = "CharBox" -> <<TextAt(x, y, b)>>
      [] b.kind = "RowBox" -> RenderRow(b.children, 1, x, y)
      [] b.kind = "FracBox" ->
           LET mid_x == x + b.width
               line_y == y - 2 * b.axis_height
               padding == b.line_thick * 2
               den_baseline == line_y + 2 * padding + 2 * b.children[2].ascent
           IN <<LineAt(x, line_y, x + 2 * b.width, line_y, b.line_thick)>>
                \o render(b.children[1], mid_x - b.children[1].width,
                          NumBaseline(b, line_y))
                \o render(b.children[2], mid_x - b.children[2].width, den_baseline)
      [] b.kind = "SqrtBox" ->
           LET w == b.children[1].width
               pad_top == b.line_thick * 3
               pad_right == b.line_thick * 2
               line_y == y - 2 * b.children[1].ascent - 2 * pad_top
           IN <<PathAt(<<<<x, y - 2 * Times(b.children[1].ascent, 600)>>,
                         <<x + 2 * Times(b.tick_width, 400), y>>,
                         <<x + 2 * b.tick_width, line_y>>,
                         <<x + 2 * b.tick_width + 2 * w + 2 * pad_right, line_y>>>>,
                       b.line_thick)>>
                \o render(b.children[1], x + 2 * b.tick_width + pad_right, y)
      [] b.kind = "SupBox" ->
           render(b.children[1], x, y)
             \o render(b.children[2],
                       x + 2 * b.children[1].width + 2 * Times(b.children[1].width, 20),
                       SupBaseline(b, y))
      [] OTHER -> <<>>

\* box.render(self.dwg, start_x, y, color, container=target) as
\* render_text_tex_lite calls it: the render methods of src/text_renderer.py
\* take no container, so the call of the legacy engine leaves with a TypeError
TypeError == <<[kind |-> "TypeError", points |-> <<>>, char |-> <<>>,
                font_size |-> 0, italic |-> FALSE, stroke_width |-> 0]>>
RenderCall(eng, box, start_x2, y) ==
    IF eng = "legacy" THEN TypeError ELSE render(box, start_x2, y)

-----------------------------------------------------------------------------
(* Operations of the engine as actions *)

Call(name) == [name |-> name, outcome |-> "ok"]

DrawGridLines ==
    /\ pc = "idle" /\ ~raised /\ nops < MaxOps
    /\ dwg' = draw_grid_lines(dwg, nops + 1)
    /\ nops' = nops + 1
    /\ last_op' = Call("draw_grid_lines")
    /\ UNCHANGED <<engine, raised, pc, plotvars, label_anchor, texvars>>

DrawAxisLabels ==
    /\ pc = "idle" /\ ~raised /\ nops < MaxOps
    /\ dwg' = draw_axis_labels(engine, dwg, nops + 1)
    /\ nops' = nops + 1
    /\ last_op' = Call("draw_axis_labels")
    /\ UNCHANGED <<engine, raised, pc, plotvars, label_anchor, texvars>>

DrawFeatures ==
    /\ pc = "idle" /\ ~raised /\ nops < MaxOps
    /\ \E fts \in FeatureLists : dwg' = draw_features(dwg, fts, nops + 1)
    /\ nops' = nops + 1
    /\ last_op' = Call("draw_features")
    /\ UNCHANGED <<engine, raised, pc, plotvars, label_anchor, texvars>>

RenderText ==
    /\ pc = "idle" /\ ~raised /\ nops < MaxOps
    /\ \E n \in 0..MaxGlyphs, rotated \in BOOLEAN :
          /\ (rotated => engine = "utils")
          /\ dwg' = RenderTextOnSurface(dwg, n, rotated, nops + 1)
    /\ nops' = nops + 1
    /\ last_op' = Call("render_text_tex_lite")
    /\ UNCHANGED <<engine, raised, pc, plotvars, label_anchor, texvars>>

-----------------------------------------------------------------------------
(* The typesetting engine at work: a text is put together piece by piece    *)
(* and then handed to parse_layout or to render_text_tex_lite.              *)

MaxPieces == 3       \* pieces a text is put together from

\* the pieces texts are put together from: letters, a digit, an operator, a
\* space, braces, the caret, commands, a function name, a character the
\* tokenizer knows no rule for, and a lone backslash
Pieces == {<<"x">>, <<"y">>, <<"2">>, <<"-">>, <<" ">>, <<"{">>, <<"}">>, <<"^">>,
           <<"\\", "f", "r", "a", "c">>, <<"\\", "s", "q", "r", "t">>,
           <<"\\", "p", "i">>, <<"s", "i", "n">>, <<"#">>, <<"\\">>}

MaxMeasures == 2     \* measure calls in one run

\* GraphConfig.font_size, and the same in hundredths of a pixel
cfg_font_size == 11
FontSize == 100 * cfg_font_size
Anchors == {"start", "middle", "end"}

NoPlace == [anchor |-> "none", x |-> 0, start_x2 |-> 0]
\* the y render_text_tex_lite is called with (hundredths)
BaselineY == 100 * 100

\* start_x of render_text_tex_lite, doubled so that box.width / 2 is exact
StartX2(x, anchor, box) ==
    LET anchored == CASE anchor = "middle" -> 2 * x - box.width
                      [] anchor = "end" -> 2 * x - 2 * box.width
                      [] OTHER -> 2 * x
    IN IF box.left_overflow > 0 THEN anchored + 2 * box.left_overflow ELSE anchored

TypePiece ==
    /\ tex_box = NoBox /\ measured = <<>> /\ npieces < MaxPieces
    /\ \E p \in Pieces : tex_text' = tex_text \o p
    /\ npieces' = npieces + 1
    /\ UNCHANGED <<tex_nodes, tex_box, placed, measured>>
    /\ UNCHANGED <<surfvars, mapvars, rendvars>>

ParseLayout ==
    /\ tex_box = NoBox
    /\ tex_nodes' = parse_group(engine, <<>>, tokenize(engine, tex_text, 1), FALSE).nodes
    /\ tex_box' = parse_layout(engine, tex_text, FontSize)
    /\ UNCHANGED <<tex_text, npieces, placed, measured>>
    /\ UNCHANGED <<surfvars, mapvars, rendvars>>

\* box.is_math = italic: the assignment render_text_tex_lite of the utils
\* engine makes to the box parse_layout returned (the legacy engine makes none)
SetItalic(eng, box, italic) ==
    IF eng = "utils" /\ box # RaisedBox THEN [box EXCEPT !.is_math = italic] ELSE box

\* render_text_tex_lite(x, y, text, anchor, italic): the box and where it is
\* rendered
RenderTextTex ==
    /\ tex_box = NoBox
    /\ tex_nodes' = parse_group(engine, <<>>, tokenize(engine, tex_text, 1), FALSE).nodes
    /\ LET box == parse_layout(engine, tex_text, FontSize)
       IN \E x \in {100 * 100}, anchor \in Anchors, italic \in BOOLEAN :
             /\ tex_box' = SetItalic(engine, box, italic)
             /\ placed' = IF box = RaisedBox THEN NoPlace
                          ELSE [anchor |-> anchor, x |-> x,
                                start_x2 |-> StartX2(x, anchor, box)]
             /\ rendered' = IF box = RaisedBox THEN <<>>
                         ELSE RenderCall(engine, SetItalic(engine, box, italic),
                                         StartX2(x, anchor, box), 2 * BaselineY)
    /\ UNCHANGED <<tex_text, npieces, measured, metrics>>
    /\ UNCHANGED <<surfvars, mapvars>>

MaxNest == 2         \* levels of fractions, roots and superscripts in a text

\* texts with fractions, roots and superscripts inside one another: the
\* arguments are brace groups, and one argument of a fraction or superscript
\* is empty or a single character
Operands == {<<>>, <<"2">>, <<"y">>}
Braced(t) == <<"{">> \o t \o <<"}">>
FracText(n, d) == Cmd(<<"f", "r", "a", "c">>) \o Braced(n) \o Braced(d)
SqrtText(t) == Cmd(<<"s", "q", "r", "t">>) \o Braced(t)
SupText(b, e) == Braced(b) \o <<"^">> \o Braced(e)
RECURSIVE NestedTexts(_)
NestedTexts(n) ==
    IF n = 0 THEN Operands
    ELSE Operands
           \cup {FracText(t, o) : t \in NestedTexts(n - 1), o \in Operands}
           \cup {FracText(o, t) : t \in NestedTexts(n - 1), o \in Operands}
           \cup {SupText(t, o) : t \in NestedTexts(n - 1), o \in Operands}
           \cup {SupText(o, t) : t \in NestedTexts(n - 1), o \in Operands}
           \cup {SqrtText(t) : t \in NestedTexts(n - 1)}

\* the caller writes down a nested text in one piece
TypeNested ==
    /\ tex_box = NoBox /\ measured = <<>> /\ npieces = 0
    /\ \E t \in NestedTexts(MaxNest) : tex_text' = t
    /\ npieces' = 1
    /\ UNCHANGED <<tex_nodes, tex_box, placed, measured>>
    /\ UNCHANGED <<surfvars, mapvars, rendvars>>

\* the import of font_metrics by src/utils/text_renderer.py, when the module
\* is there: the kerning tables of the engine are its tables
LoadMetrics ==
    /\ engine = "utils" /\ metrics = Fallback
    /\ tex_text = <<>> /\ tex_box = NoBox /\ measured = <<>> /\ nops = 0
    /\ screen = NoScreen
    /\ metrics' = FontMetrics
    /\ UNCHANGED <<tex_text, npieces, tex_nodes, tex_box, placed, measured, rendered>>
    /\ UNCHANGED <<surfvars, mapvars>>

\* measure(text, font_size), called at any time before or after the other
\* calls; after: parse_layout or render_text_tex_lite was called before it
Measure ==
    /\ Len(measured) < MaxMeasures
    /\ measured' = Append(measured, [text |-> tex_text, after |-> tex_box # NoBox,
                                     result |-> measure(engine, tex_text, FontSize)])
    /\ UNCHANGED <<tex_text, npieces, tex_nodes, tex_box, placed>>
    /\ UNCHANGED <<surfvars, mapvars, rendvars>>

MaxTokens == 5       \* tokens of a text handed to the parser

\* the pieces the texts for the parser are put together from: a digit, the
\* braces, the caret and three commands; each is one token
ParsePieces == {<<"2">>, <<"{">>, <<"}">>, <<"^">>, <<"\\", "f", "r", "a", "c">>,
                <<"\\", "s", "q", "r", "t">>, <<"\\", "p", "i">>}

TypeToken ==
    /\ tex_box = NoBox /\ measured = <<>> /\ npieces < MaxTokens
    /\ \E p \in ParsePieces : tex_text' = tex_text \o p
    /\ npieces' = npieces + 1
    /\ UNCHANGED <<tex_nodes, tex_box, placed, measured>>
    /\ UNCHANGED <<surfvars, mapvars, rendvars>>

MaxChars == 5        \* pieces of a text handed to the tokenizer

\* the pieces the texts for the tokenizer are put together from: the letters
\* of a function name, a digit, a command, a character token_re has no
\* alternative for, and a lone backslash
CharPieces == {<<"s">>, <<"i">>, <<"n">>, <<"2">>, <<"\\", "p", "i">>,
               <<"*">>, <<"\\">>}

TypeChar ==
    /\ tex_box = NoBox /\ measured = <<>> /\ npieces < MaxChars
    /\ \E p \in CharPieces : tex_text' = tex_text \o p
    /\ npieces' = npieces + 1
    /\ UNCHANGED <<tex_nodes, tex_box, placed, measured>>
    /\ UNCHANGED <<surfvars, mapvars, rendvars>>

\* the configurations an engine is built with
Configs ==
    {Config(<<sx, sy>>, sp, pm, pos) :
        sx \in {0, 50, 100, 200}, sy \in {0, 50, 100, 200},
        sp \in {<<20, 20>>, <<10, 20>>}, pm \in {<<5, 5>>, <<5, 4>>},
        pos \in {<<0, 0>>, <<1, 2>>}}

\* the points handed to math_to_screen, in hundredths
Coords == {-150, 0, 100, 250}

\* GraphEngine(config): a fresh engine with a configuration of the caller
Configure ==
    /\ screen = NoScreen /\ nops = 0 /\ tex_box = NoBox
    /\ \E c \in Configs : cfg' = c
    /\ UNCHANGED <<surfvars, tex_text, npieces, tex_nodes, tex_box, placed,
                   measured, screen, rendvars>>

\* math_to_screen(x, y)
MathToScreen ==
    /\ \E x \in Coords, y \in Coords : screen' = math_to_screen(cfg, x, y)
    /\ UNCHANGED <<surfvars, tex_text, npieces, tex_nodes, tex_box, placed,
                   measured, cfg, rendvars>>

-----------------------------------------------------------------------------
(* Requests and specifications *)

Labels == {NoLabel} \cup {Label(n) : n \in 0..MaxGlyphs}

\* a plot request on a surface shared with the other operations
SurfacePlot ==
    /\ nops < MaxOps
    /\ \E e \in {Recip(100, 2 * XS), Bad}, lbl \in {NoLabel, Label(1)} :
          PlotStart(e, <<0, 5 * XS>>, 50 * HUNDREDTH, lbl)

\* the plot requests the curve sampler is checked on
Poles == {2 * XS, 2 * XS + 16384, 0, 3 * HUNDREDTH, 5 * XS - 3 * HUNDREDTH}
Exprs == {Recip(100, c) : c \in Poles}
           \cup {Recip(10, 2 * XS + 3 * HUNDREDTH + 16384), Recip2, Gap, Lin, Big, Tall, Bad}
Domains == {<<-5 * XS, 5 * XS>>, <<0, 5 * XS>>, <<XS, 6 * XS>>}
Steps == {10 * HUNDREDTH, 50 * HUNDREDTH}

\* the singularity scan of one plot_function call of the utils engine
ScanStart ==
    /\ engine = "utils" /\ pc = "idle" /\ nops = 0 /\ scan = NoScan
    /\ tex_text = <<>> /\ tex_box = NoBox /\ measured = <<>>
    /\ screen = NoScreen /\ metrics = Fallback
    /\ \E e \in Exprs \ {Bad}, dom \in Domains : scan' = ScanBegin(e, dom)
    /\ UNCHANGED <<engine, dwg, nops, raised, pc, plotvars, label_anchor, last_op>>
    /\ UNCHANGED <<tex_text, npieces, tex_nodes, tex_box, placed, measured, mapvars,
                   rendvars>>

ScanStep ==
    /\ scan.phase \in {"pairs", "bisect"}
    /\ scan' = CASE scan.phase = "pairs" /\ scan.todo # <<>> -> ScanPair(scan)
                 [] scan.phase = "pairs" /\ scan.todo = <<>> -> ScanSorted(scan)
                 [] scan.phase = "bisect" /\ scan.left > 0 -> ScanIterate(scan)
                 [] OTHER -> ScanAppend(scan)
    /\ UNCHANGED <<engine, dwg, nops, raised, pc, plotvars, label_anchor, last_op>>
    /\ UNCHANGED <<tex_text, npieces, tex_nodes, tex_box, placed, measured, mapvars,
                   rendvars>>

WalkPlot ==
    /\ nops = 0
    /\ \E e \in Exprs, dom \in Domains, st \in Steps, lbl \in Labels :
          PlotStart(e, dom, st, lbl)

Init ==
    /\ engine \in {"utils", "legacy"}
    /\ dwg = <<>>
    /\ nops = 0
    /\ raised = FALSE
    /\ pc = "idle"
    /\ expr = Bad
    /\ domain = <<0, 0>>
    /\ step = 0
    /\ label_text = NoLabel
    /\ singularities = <<>>
    /\ a = 0
    /\ path_data = <<>>
    /\ current_seg_started = FALSE
    /\ last_valid_point = NoPoint
    /\ cut_steps = 0
    /\ label_anchor = NoPoint
    /\ last_op = Call("init")
    /\ tex_text = <<>>
    /\ npieces = 0
    /\ tex_nodes = <<>>
    /\ tex_box = NoBox
    /\ placed = NoPlace
    /\ measured = <<>>
    /\ cfg = DefaultConfig
    /\ screen = NoScreen
    /\ metrics = Fallback
    /\ rendered = <<>>
    /\ scan = NoScan

Next ==
    \/ DrawGridLines
    \/ DrawAxisLabels
    \/ DrawFeatures
    \/ RenderText
    \/ SurfacePlot
    \/ WalkStep
    \/ PlotFinish

Spec == Init /\ [][Next]_vars

NextWalk ==
    \/ WalkPlot
    \/ WalkStep
    \/ PlotFinish

SpecWalk == Init /\ [][NextWalk]_vars

NextTex ==
    \/ TypePiece
    \/ ParseLayout
    \/ RenderTextTex

SpecTex == Init /\ [][NextTex]_vars

NextMeasure ==
    \/ TypePiece
    \/ ParseLayout
    \/ RenderTextTex
    \/ Measure

SpecMeasure == Init /\ [][NextMeasure]_vars

NextParse ==
    \/ TypeToken
    \/ ParseLayout

SpecParse == Init /\ [][NextParse]_vars

NextTokens ==
    \/ TypeChar
    \/ ParseLayout

SpecTokens == Init /\ [][NextTokens]_vars

NextRender ==
    \/ LoadMetrics
    \/ TypePiece
    \/ RenderTextTex

SpecRender == Init /\ [][NextRender]_vars

NextNested ==
    \/ TypeNested
    \/ ParseLayout
    \/ RenderTextTex

SpecNested == Init /\ [][NextNested]_vars

NextScan ==
    \/ ScanStart
    \/ ScanStep

SpecScan == Init /\ [][NextScan]_vars

NextMap ==
    \/ Configure
    \/ MathToScreen

SpecMap == Init /\ [][NextMap]_vars

-----------------------------------------------------------------------------
(* Properties of the emitted path *)

Segments == {i \in 1..Len(path_data) : path_data[i].cmd = "C"}
MoveTos == {i \in 1..Len(path_data) : path_data[i].cmd = "M"}

\* the while loop of plot_function has run to its end
WalkDone == pc = "walk" /\ ~(a < domain[2])

\* no emitted segment has a detected singularity inside its x-range
NoStraddle ==
    \A i \in Segments : \A k \in 1..Len(singularities) :
        ~(path_data[i].xa <= singularities[k] /\ singularities[k] <= path_data[i].xb)

\* position i ends the part of the path before a break at s and position
\* i + 2 starts the part after it, both within epsilon of s
BreakAt(i, s) ==
    /\ i \in Segments /\ i + 1 \in MoveTos /\ i + 2 \in Segments
    /\ path_data[i].xb < s /\ s - path_data[i].xb <= epsilon
    /\ path_data[i + 2].xa > s /\ path_data[i + 2].xa - s <= epsilon

-----------------------------------------------------------------------------
(* Properties of one step of the walk *)

\* the step [a, StepB] the next iteration of the loop works on
StepB == CheckCrossing(engine, a, StepEnd(a, step, domain), singularities)[1]
InLoop == pc = "walk" /\ a < domain[2]

\* the next iteration drops its step: f gives no finite value at an endpoint
StepDropped ==
    /\ InLoop /\ StepB > a
    /\ (~safe_f(engine, expr, a).ok \/ ~safe_f(engine, expr, StepB).ok)

\* the vertical pixel distance between the two end samples of [a, StepB]
StepJump ==
    Abs(math_to_screen_y(safe_f(engine, expr, a).v)
          - math_to_screen_y(safe_f(engine, expr, StepB).v))

\* the next iteration evaluates both ends and they lie further apart
\* vertically than 90% of the canvas height
StepOverLimit ==
    /\ InLoop /\ StepB > a
    /\ safe_f(engine, expr, a).ok /\ safe_f(engine, expr, StepB).ok
    /\ StepJump > (height_pixels * 9) \div 10

\* C2 as stated: a step dropped because f fails or is not finite at an
\* endpoint emits no segment and resets the "current segment started" flag,
\* so that the next emitted segment begins with a MoveTo.
C2_DroppedStepResetsFlag ==
    [][(engine = "utils" /\ StepDropped) => (path_data' = path_data /\ current_seg_started' = FALSE)]_vars

\* the vertical pixel distance between the end samples of emitted segment i
SegJump(i) ==
    Abs(math_to_screen_y(safe_f(engine, expr, path_data[i].xa).v) - path_data[i].y)

\* C3 as stated: the end samples of every emitted segment are at most 90% of
\* the canvas height apart vertically, and a step that exceeds this emits
\* nothing and makes the next emitted segment start with a MoveTo.
C3_JumpWithinNinetyPercent ==
    /\ [](\A i \in Segments : SegJump(i) <= (height_pixels * 9) \div 10)
    /\ [][StepOverLimit =>
            (path_data' = path_data /\ current_seg_started' = FALSE)]_vars

\* the anchor the stated order selects: (0, f(0)), else the midpoint, else the
\* last plotted pixel
PreferredAnchor ==
    LET mid_x == (domain[1] + domain[2]) \div 2
    IN IF domain[1] <= 0 /\ 0 <= domain[2] /\ EvalF(expr, 0).st # "fail"
       THEN Point(math_to_screen_x(0), math_to_screen_y(EvalF(expr, 0).v))
       ELSE IF EvalF(expr, mid_x).st # "fail"
       THEN Point(math_to_screen_x(mid_x), math_to_screen_y(EvalF(expr, mid_x).v))
       ELSE last_valid_point

\* plot_function has returned after drawing a path with a label requested
LabelledPlotDone ==
    /\ pc = "idle" /\ last_op = [name |-> "plot_function", outcome |-> "ok"]
    /\ label_text.given /\ path_data # <<>>

\* C8 as stated: a labelled plot that drew a path anchors its label at
\* (0, f(0)) when 0 is in the domain and f(0) is finite, else at the domain
\* midpoint when f is finite there, else at the last plotted pixel.
C8_LabelAnchorOrder == LabelledPlotDone => label_anchor = PreferredAnchor

-----------------------------------------------------------------------------
(* Properties of the drawing surface *)

\* a plot_function call whose expression string the algebra layer rejects
UnparsablePlot ==
    \E dom \in Domains, st \in Steps, lbl \in Labels : PlotStart(Bad, dom, st, lbl)

\* the engine has just returned from an abandoned plot request
Abandoned == last_op = [name |-> "plot_function", outcome |-> "abandon"]

\* C5: a plot request whose expression cannot be parsed returns with the
\* surface and every other field of the engine unchanged and nothing raised,
\* and the draw and plot operations stay available after it.
C5_UnparsablePlotIsSilent ==
    /\ [][UnparsablePlot =>
            (/\ raised' = FALSE /\ pc' = "idle"
             /\ UNCHANGED <<engine, dwg, plotvars, label_anchor>>)]_vars
    /\ []((Abandoned /\ nops < MaxOps) =>
            (/\ ~raised
             /\ ENABLED DrawGridLines /\ ENABLED DrawAxisLabels
             /\ ENABLED DrawFeatures /\ ENABLED RenderText
             /\ ENABLED SurfacePlot))

\* an abandoned plot request on a surface that already holds elements
C5_Witness == Abandoned /\ dwg # <<>> /\ ~raised

IsPrefix(s, t) == Len(s) <= Len(t) /\ SubSeq(t, 1, Len(s)) = s

\* C10: every operation leaves the elements already on the surface as an
\* unchanged prefix of the surface, and the elements lie on the surface in the
\* order of the requests that created them.
C10_SurfaceOnlyGrows ==
    /\ [][IsPrefix(dwg, dwg')]_vars
    /\ [](\A i \in 1..Len(dwg) : \A j \in i..Len(dwg) : dwg[i].op <= dwg[j].op)

\* a surface holding the elements of a first request and then a plotted path
C10_Witness ==
    \E i \in 1..Len(dwg) : \E j \in i..Len(dwg) :
        dwg[i].op = 1 /\ dwg[j].op = 2 /\ dwg[j].kind = "path"

-----------------------------------------------------------------------------
(* Properties of the TexEngine *)

\* parse_layout or render_text_tex_lite has returned or raised
TexCalled == tex_box # NoBox

C6_AnchorPlacement ==
    placed.anchor # "none" =>
        CASE placed.anchor = "middle" ->
                 placed.start_x2 - tex_box.left_overflow + tex_box.width = 2 * placed.x
          [] placed.anchor = "end" ->
                 placed.start_x2 + 2 * tex_box.width = 2 * placed.x
          [] OTHER ->
                 placed.start_x2 - 2 * tex_box.left_overflow = 2 * placed.x

\* the kerning RowBox.render applies between two adjacent children
KernBetween(l, r) ==
    IF l.kind = "CharBox" /\ r.kind = "CharBox" /\ l.is_math = r.is_math
    THEN get_kerning(l.char, r.char, r.font_size, r.is_math)
    ELSE 0

KernSum(cs) == SeqSum([i \in 1..(Len(cs) - 1) |-> KernBetween(cs[i], cs[i + 1])])

RowAdditive(b) ==
    /\ b.width = SeqSum([i \in 1..Len(b.children) |-> b.children[i].width])
                 + KernSum(b.children)
    /\ b.ascent = SeqMax([i \in 1..Len(b.children) |-> b.children[i].ascent])
    /\ b.descent = SeqMax([i \in 1..Len(b.children) |-> b.children[i].descent])

RECURSIVE RowsAdditive(_)
RowsAdditive(b) ==
    /\ b.kind = "RowBox" => RowAdditive(b)
    /\ \A i \in 1..Len(b.children) : RowsAdditive(b.children[i])

\* C7 as stated: in every tree parse_layout returns, every RowBox has the
\* width of its children plus the kerning between adjacent children, the
\* largest ascent and the largest descent of its children.
C7_RowBoxAdditivity ==
    (TexCalled /\ tex_box # RaisedBox) => RowsAdditive(tex_box)

AsBuilt(children) ==
    RowBox(SeqSum([i \in 1..Len(children) |-> children[i].width]),
           SeqMax([i \in 1..Len(children) |-> children[i].ascent]),
           SeqMax([i \in 1..Len(children) |-> children[i].descent]),
           IF children[1].left_overflow > 0 THEN children[1].left_overflow ELSE 0,
           children)

\* every row and every empty box of the tree still has the fields it was
\* constructed with
RECURSIVE BoxesAsBuilt(_)
BoxesAsBuilt(b) ==
    /\ b.kind = "RowBox" => b = AsBuilt(b.children)
    /\ b.kind = "Box" => b = Box(0, 0, 0)
    /\ \A i \in 1..Len(b.children) : BoxesAsBuilt(b.children[i])

\* C11 as stated: once parse_layout or render_text_tex_lite has returned,
\* every box of the tree has exactly the fields it was constructed with; no
\* layout step and no render call has changed or added one.
C11_BoxesImmutable ==
    (TexCalled /\ tex_box # RaisedBox) => BoxesAsBuilt(tex_box)

-----------------------------------------------------------------------------
(* Properties of the coordinate mapper *)

\* C12: whenever math_to_screen returns, px = origin_x + x * pixels_per_unit_x
\* and py = origin_y - y * pixels_per_unit_y with pixels_per_unit =
\* (minor_spacing * minor_per_major) / grid_scale on each axis (the equations
\* multiplied by grid_scale, lengths in hundredths).
C12_MathToScreenFormula ==
    (screen.called /\ ~screen.raised) =>
        /\ (screen.px - cfg_origin_x(cfg)) * cfg.grid_scale[1]
             = screen.x * 100 * cfg.minor_spacing[1] * cfg.minor_per_major[1]
        /\ (cfg_origin_y(cfg) - screen.py) * cfg.grid_scale[2]
             = screen.y * 100 * cfg.minor_spacing[2] * cfg.minor_per_major[2]

\* a point off both axes mapped under a configuration whose two axes differ in
\* scale, spacing and subdivision and whose axes are not at the grid corner
C12_Witness ==
    /\ screen.called /\ ~screen.raised
    /\ screen.x = 250 /\ screen.y = -150
    /\ cfg = Config(<<50, 200>>, <<10, 20>>, <<5, 4>>, <<1, 2>>)
    /\ screen.px = 100 * (40 + 10 * 5 * 2) + 250 * 100
    /\ screen.py = 100 * (40 + 20 * 4 * 1) + 150 * 40

\* C13 as stated: math_to_screen returns a pixel pair for every configuration
\* and every point, a grid_scale component of 0 included; it never raises.
C13_MathToScreenNeverRaises == screen.called => ~screen.raised

-----------------------------------------------------------------------------
(* Properties of the parser: the grammar as it is stated, to compare the     *)
(* nodes _parse_group returns with.                                          *)

\* the tokens of the text at hand
Tokens == tokenize(engine, tex_text, 1)
HasToken(t) == \E i \in 1..Len(Tokens) : Tokens[i] = t
Drop(toks, n) == SubSeq(toks, n + 1, Len(toks))

\* the index of the '}' that balances a '{' opened before position i, with
\* depth braces opened since; 0 when there is none
RECURSIVE CloseAt(_, _, _)
CloseAt(toks, i, depth) ==
    IF i > Len(toks) THEN 0
    ELSE IF toks[i] = <<"{">> THEN CloseAt(toks, i + 1, depth + 1)
    ELSE IF toks[i] = <<"}">>
    THEN IF depth = 0 THEN i ELSE CloseAt(toks, i + 1, depth - 1)
    ELSE CloseAt(toks, i + 1, depth)

\* the number of tokens of the atom toks begins with: a brace group up to its
\* balancing '}' (or to the end of the input), else one token
StatedAtomLen(toks) ==
    IF Head(toks) = <<"{">>
    THEN IF CloseAt(toks, 2, 0) = 0 THEN Len(toks) ELSE CloseAt(toks, 2, 0)
    ELSE 1

RECURSIVE StatedRow(_, _, _)

\* the node of an atom given as exactly its tokens
StatedAtomNode(tex, toks) ==
    IF Head(toks) = <<"{">>
    THEN GroupNode(StatedRow(tex, <<>>,
             SubSeq(toks, 2, IF CloseAt(toks, 2, 0) = 0 THEN Len(toks)
                                                         ELSE Len(toks) - 1)))
    ELSE parse_next_atom(tex, toks).node

\* the next atom of toks, or the placeholder when no token is left
StatedTake(tex, toks) ==
    IF toks = <<>> THEN [node |-> CharNode(<<"?">>), n |-> 0]
    ELSE [node |-> StatedAtomNode(tex, SubSeq(toks, 1, StatedAtomLen(toks))),
          n |-> StatedAtomLen(toks)]

\* the nodes of a row of tokens, after the nodes collected so far
StatedRow(tex, nodes, toks) ==
    IF toks = <<>> THEN nodes
    ELSE LET tok == Head(toks)
             rest == Tail(toks)
         IN IF tok = <<"}">> THEN StatedRow(tex, nodes, rest)
            ELSE IF tok = <<"{">>
            THEN StatedRow(tex, Append(nodes, StatedTake(tex, toks).node),
                           Drop(toks, StatedTake(tex, toks).n))
            ELSE IF tok = <<"^">>
            THEN IF nodes = <<>> THEN StatedRow(tex, nodes, rest)
                 ELSE IF rest = <<>> THEN nodes
                 ELSE StatedRow(tex,
                        Append(Front(nodes),
                               SupNode(Last(nodes), StatedTake(tex, rest).node)),
                        Drop(rest, StatedTake(tex, rest).n))
            ELSE IF tok = Cmd(<<"f", "r", "a", "c">>)
            THEN LET num == StatedTake(tex, rest)
                     den == StatedTake(tex, Drop(rest, num.n))
                 IN StatedRow(tex, Append(nodes, FracNode(num.node, den.node)),
                              Drop(rest, num.n + den.n))
            ELSE IF tok = Cmd(<<"s", "q", "r", "t">>)
            THEN LET content == StatedTake(tex, rest)
                 IN StatedRow(tex, Append(nodes, SqrtNode(content.node)),
                              Drop(rest, content.n))
            ELSE StatedRow(tex, nodes \o parse_group(tex, <<>>, <<tok>>, FALSE).nodes,
                           rest)

\* the nodes hold a '}' that was taken as a literal token
RECURSIVE HoldsBrace(_)
HoldsBrace(nodes) ==
    \E i \in 1..Len(nodes) :
        \/ nodes[i].type = "char" /\ nodes[i].val = <<"}">>
        \/ HoldsBrace(nodes[i].a) \/ HoldsBrace(nodes[i].b)

\* parse_layout has returned for the text at hand
ParseReturned == TexCalled /\ tex_box # RaisedBox

\* C14: in a text with a '^', every '^' that has a preceding node in its
\* group and a following token takes that node as the base of a sup node and
\* exactly the following atom (brace group, command or single literal token)
\* as its sup, and the tokens after the atom are parsed in the enclosing
\* group: the nodes are those of the stated grammar.  A '}' taken as the
\* literal token is left to the claim about brace matching.
C14_CaretBindsAtom ==
    (ParseReturned /\ HasToken(<<"^">>) /\ ~HoldsBrace(tex_nodes)) =>
        tex_nodes = StatedRow(engine, <<>>, Tokens)

\* a superscript that is a brace group, followed by a token of the row
C14_Witness ==
    /\ ParseReturned
    /\ Tokens = <<<<"2">>, <<"^">>, <<"{">>, <<"}">>, <<"2">>>>
    /\ tex_nodes = <<SupNode(CharNode(<<"2">>), GroupNode(<<>>)), CharNode(<<"2">>)>>

\* C15: in a text with \frac or \sqrt, \frac takes exactly the next two atoms
\* and \sqrt exactly the next one, the tokens after them are left to the
\* enclosing group, and a missing atom is the placeholder: the nodes are those
\* of the stated grammar.
C15_FracSqrtTakeAtoms ==
    (/\ ParseReturned
     /\ HasToken(Cmd(<<"f", "r", "a", "c">>)) \/ HasToken(Cmd(<<"s", "q", "r", "t">>))
     /\ ~HoldsBrace(tex_nodes)) =>
        tex_nodes = StatedRow(engine, <<>>, Tokens)

\* a \frac with a brace group and a literal as its atoms, and a token after it
C15_Witness ==
    /\ ParseReturned
    /\ Tokens = <<Cmd(<<"f", "r", "a", "c">>), <<"{">>, <<"}">>, <<"2">>, <<"2">>>>
    /\ tex_nodes = <<FracNode(GroupNode(<<>>), CharNode(<<"2">>)), CharNode(<<"2">>)>>

\* C16 as stated: for every token sequence with a brace, each '{' opens a
\* group of exactly the nodes parsed from the tokens up to the '}' that
\* balances it, parsing resumes after that '}', and an unclosed '{' runs to
\* the end of the input.
C16_BraceMatching ==
    (ParseReturned /\ HasToken(<<"{">>)) =>
        tex_nodes = StatedRow(engine, <<>>, Tokens)

-----------------------------------------------------------------------------
(* Properties of the glyph boxes of a layout tree *)

RECURSIVE CharBoxesIn(_)
RECURSIVE CharBoxesFrom(_, _)
\* the CharBoxes of a tree, in reading order
CharBoxesIn(b) == IF b.kind = "CharBox" THEN <<b>> ELSE CharBoxesFrom(b.children, 1)
CharBoxesFrom(children, i) ==
    IF i > Len(children) THEN <<>>
    ELSE CharBoxesIn(children[i]) \o CharBoxesFrom(children, i + 1)

RECURSIVE RowsIn(_)
RECURSIVE RowsFrom(_, _)
\* the RowBoxes of a tree
RowsIn(b) ==
    (IF b.kind = "RowBox" THEN <<b>> ELSE <<>>) \o RowsFrom(b.children, 1)
RowsFrom(children, i) ==
    IF i > Len(children) THEN <<>>
    ELSE RowsIn(children[i]) \o RowsFrom(children, i + 1)

Count(seq, Test(_)) == Cardinality({i \in 1..Len(seq) : Test(seq[i])})

IsGreekBox(b) == Len(b.char) = 1 /\ b.char[1] \in Greek
IsGreekToken(t) == IsCommand(t) /\ Tail(t) \in GreekNames

\* C17 as stated: every Greek command of the text yields exactly one CharBox
\* that holds its Greek letter, wherever it stands, and that CharBox is
\* upright (is_math = FALSE).
C17_GreekUpright ==
    (ParseReturned /\ engine = "utils") =>
        /\ Count(CharBoxesIn(tex_box), IsGreekBox) = Count(Tokens, IsGreekToken)
        /\ \A i \in 1..Len(CharBoxesIn(tex_box)) :
              IsGreekBox(CharBoxesIn(tex_box)[i]) => ~CharBoxesIn(tex_box)[i].is_math

\* the letters of the function name the texts are put together from
FuncLetters == {"s", "i", "n"}
\* the single letters the texts are put together from
VarLetters == {"x", "y"}

\* C18 as stated, for the texts at hand (the letters s, i, n stem from the
\* function name sin, the letters x and y are literal characters when the
\* text holds no backslash): every CharBox holds a single character; a letter
\* of a function name is upright, a literal letter is italic, a digit or
\* punctuation character is upright.
C18_UprightAndItalic ==
    (ParseReturned /\ engine = "utils") =>
        \A i \in 1..Len(CharBoxesIn(tex_box)) :
            LET b == CharBoxesIn(tex_box)[i]
            IN /\ Len(b.char) = 1
               /\ b.char[1] \in FuncLetters => ~b.is_math
               /\ ~(IsLetter(b.char[1]) \/ b.char[1] \in Greek) => ~b.is_math
               /\ (b.char[1] \in VarLetters /\ \A j \in 1..Len(tex_text) : tex_text[j] # "\\")
                     => b.is_math

IsOperatorBox(b) == b.kind = "CharBox" /\ b.char \in {<<"=">>, <<"+">>, <<MinusSign>>}
IsHyphen(t) == t = <<"-">>
IsMinusBox(b) == b.char = <<MinusSign>>

\* child i of the row is an upright operator between two spaces of equal width
PaddedOperator(row, i) ==
    /\ 1 < i /\ i < Len(row.children)
    /\ ~row.children[i].is_math
    /\ row.children[i - 1].kind = "SpaceBox" /\ row.children[i + 1].kind = "SpaceBox"
    /\ row.children[i - 1].width = row.children[i + 1].width

\* C19: every literal '-' of the text is laid out as U+2212, every operator
\* CharBox is upright and stands in its row between two SpaceBoxes of equal
\* width, and no CharBox holds the hyphen-minus.
C19_OperatorsPadded ==
    ParseReturned =>
        /\ Count(CharBoxesIn(tex_box), IsMinusBox) = Count(Tokens, IsHyphen)
        /\ \A r \in 1..Len(RowsIn(tex_box)) :
              \A i \in 1..Len(RowsIn(tex_box)[r].children) :
                  IsOperatorBox(RowsIn(tex_box)[r].children[i])
                      => PaddedOperator(RowsIn(tex_box)[r], i)
        /\ \A i \in 1..Len(CharBoxesIn(tex_box)) : CharBoxesIn(tex_box)[i].char # <<"-">>

\* a minus between two letters, and a minus as a superscript
C19_Witness ==
    /\ ParseReturned
    /\ tex_text \in {<<"x", "-", "y">>, <<"x", "^", "-">>}
    /\ Count(CharBoxesIn(tex_box), IsMinusBox) = 1

RECURSIVE Lead(_)
\* the box a row begins with to the eye: spaces are passed over, a
\* superscript begins with its base; <<>> when the row shows nothing
Lead(b) ==
    CASE b.kind = "RowBox" ->
           LET shown == SelectSeq(b.children, LAMBDA c : c.kind # "SpaceBox")
           IN IF shown = <<>> THEN <<>> ELSE Lead(shown[1])
      [] b.kind = "SupBox" -> Lead(b.children[1])
      [] b.kind \in {"Box", "SpaceBox"} -> <<>>
      [] OTHER -> <<b>>

\* the correction the first visible glyph asks for
StatedCorrection(b) ==
    IF Lead(b) # <<>> /\ Lead(b)[1].kind = "CharBox" /\ Lead(b)[1].is_math
       /\ Len(Lead(b)[1].char) = 1
    THEN Times(Lead(b)[1].font_size, LEFT_OVERFLOW_MAP(Lead(b)[1].char[1]))
    ELSE 0

\* the correction render_text_tex_lite applied to the insertion x (doubled)
AppliedCorrection2 ==
    placed.start_x2 - (CASE placed.anchor = "middle" -> 2 * placed.x - tex_box.width
                         [] placed.anchor = "end" -> 2 * placed.x - 2 * tex_box.width
                         [] OTHER -> 2 * placed.x)

\* C20 as stated: a text whose first visible glyph is an italic letter of
\* the overflow table is rendered with that glyph's correction (table value
\* times font size) applied once; any other text that begins with a glyph is
\* rendered with no correction.
C20_OverflowOfFirstGlyph ==
    (placed.anchor # "none" /\ engine = "utils"
       /\ Lead(tex_box) # <<>> /\ Lead(tex_box)[1].kind = "CharBox") =>
        AppliedCorrection2 = 2 * StatedCorrection(tex_box)

-----------------------------------------------------------------------------
(* Properties of Box.render *)

\* render_text_tex_lite of the utils engine has rendered a box
Rendered == placed.anchor # "none" /\ engine = "utils"

\* the row is made of glyphs and spaces only
FlatRow(b) ==
    /\ b.kind = "RowBox"
    /\ \A i \in 1..Len(b.children) : b.children[i].kind \in {"CharBox", "SpaceBox"}

\* the kerning value of two boxes as stated: the table entry of the pair
\* times the font size when both are CharBoxes of one mode, 0 otherwise
StatedKern(l, r) ==
    LET table == IF r.is_math THEN metrics.KERNING_ITALIC ELSE metrics.KERNING_NORMAL
    IN IF l.kind = "CharBox" /\ r.kind = "CharBox" /\ l.is_math = r.is_math
          /\ <<l.char, r.char>> \in DOMAIN table
       THEN (r.font_size * table[<<l.char, r.char>>]) \div 1000
       ELSE 0

\* where child i of a row starts, from the start of the row (doubled)
StatedAdvance(children, i) ==
    2 * SeqSum([j \in 1..(i - 1) |-> children[j].width])
      + 2 * SeqSum([j \in 1..(i - 1) |->
                      IF j = 1 THEN 0 ELSE StatedKern(children[j - 1], children[j])])
      + 2 * (IF i = 1 THEN 0 ELSE StatedKern(children[i - 1], children[i]))

\* the positions of the CharBoxes among the children of a row, in order
GlyphPositions(children) == SortedSeq({i \in 1..Len(children) : children[i].kind = "CharBox"})

\* C21: in a rendered row of glyphs and spaces every glyph is drawn at the
\* start of the row plus the widths of the children before it plus the
\* kerning values of the pairs up to it, a kerning value being added only
\* between two directly adjacent CharBoxes of the same is_math mode (0 when
\* the pair is absent from the table); the width of every CharBox is the
\* width of its character alone and the width of the row the sum of the
\* widths of its children, whatever the kerning tables hold.
C21_KerningOnlyShifts ==
    (Rendered /\ FlatRow(tex_box)) =>
        LET cs == tex_box.children
            at == GlyphPositions(cs)
        IN /\ Len(rendered) = Len(at)
           /\ \A k \in 1..Len(at) :
                 /\ rendered[k].kind = "text" /\ rendered[k].char = cs[at[k]].char
                 /\ rendered[k].points[1][1]
                      = placed.start_x2 + StatedAdvance(cs, at[k])
           /\ \A i \in 1..Len(cs) :
                 cs[i].kind = "CharBox" =>
                    cs[i].width = get_char_width(engine, cs[i].char, cs[i].font_size,
                                                 cs[i].is_math)
           /\ tex_box.width = SeqSum([i \in 1..Len(cs) |-> cs[i].width])

\* 'xy2' rendered with the tables of font_metrics: the y and the 2 after it
\* are shifted by the kerning of (x, y), the pair (y, 2) is of two modes
C21_Witness ==
    /\ Rendered /\ metrics = FontMetrics /\ placed.anchor = "start"
    /\ tex_text = <<"x", "y", "2">>
    /\ Len(rendered) = 3
    /\ rendered[2].points[1][1] = rendered[1].points[1][1] + 2 * 550 - 2 * 55
    /\ rendered[3].points[1][1] = rendered[2].points[1][1] + 2 * 550

\* the row shows at least one glyph
HasGlyph(b) == \E i \in 1..Len(b.children) : b.children[i].kind = "CharBox"

\* the y of the text elements a flat row adds when rendered at (0, y)
GlyphYs(b, y) == {render(b, 0, y)[k].points[1][2] : k \in 1..Len(render(b, 0, y))}

\* FracBox.render of the fraction at baseline y, as stated: the bar at
\* y - axis_height, the bottom edge of the numerator (its baseline plus its
\* descent) and the top edge of the denominator (its baseline minus its
\* ascent) each 2 * line_thick from the bar
FracRenderedAsStated(b, y) ==
    LET bar == render(b, 0, y)[1]
        num == b.children[1]
        den == b.children[2]
        line_y == y - 2 * b.axis_height
    IN /\ bar.kind = "line"
       /\ bar.points = <<<<0, line_y>>, <<2 * b.width, line_y>>>>
       /\ (FlatRow(num) /\ HasGlyph(num)) =>
             /\ SubSeq(render(b, 0, y), 2, 1 + Len(render(num, 0, 0)))
                  = render(num, b.width - num.width, line_y - 4 * b.line_thick
                                                      - 2 * num.descent)
             /\ \A gy \in GlyphYs(num, line_y - 4 * b.line_thick - 2 * num.descent) :
                   line_y - (gy + 2 * num.descent) = 2 * (2 * b.line_thick)
       /\ (FlatRow(num) /\ FlatRow(den) /\ HasGlyph(den)) =>
             SubSeq(render(b, 0, y), 2 + Len(render(num, 0, 0)), Len(render(b, 0, y)))
               = render(den, b.width - den.width, line_y + 4 * b.line_thick
                                                   + 2 * den.ascent)

RECURSIVE FracsAsStated(_, _)
\* every fraction of the tree b, laid out at font size s, is as stated
FracsAsStated(b, s) ==
    CASE b.kind = "CharBox" -> b.font_size = s
      [] b.kind = "FracBox" ->
           LET num == b.children[1]
               den == b.children[2]
           IN /\ FracsAsStated(num, (s * 800) \div 1000)
              /\ FracsAsStated(den, (s * 800) \div 1000)
              /\ b.axis_height = (s * 280) \div 1000
              /\ b.line_thick = (s * 40) \div 1000
              /\ b.width = MaxOf(num.width, den.width) + 600
              /\ b.ascent = b.axis_height + 2 * b.line_thick + (num.ascent + num.descent)
              /\ b.descent = (den.ascent + den.descent) + 2 * b.line_thick - b.axis_height
              /\ engine = "utils" => FracRenderedAsStated(b, 2 * BaselineY)
      [] b.kind = "SupBox" ->
           /\ FracsAsStated(b.children[1], s)
           /\ FracsAsStated(b.children[2], (s * 700) \div 1000)
      [] OTHER -> \A i \in 1..Len(b.children) : FracsAsStated(b.children[i], s)

\* C22: every fraction of a tree parse_layout returned for font size s has
\* its numerator and denominator laid out at 0.8 * s (compounding under
\* nesting), axis_height 0.28 * s, line_thick 0.04 * s, width
\* max(num.width, den.width) + 6, ascent axis_height + 2 * line_thick +
\* num.height and descent den.height + 2 * line_thick - axis_height, and
\* FracBox.render draws the bar at y - axis_height with the numerator's
\* bottom edge and the denominator's top edge 2 * line_thick from it.
C22_FractionGeometry == ParseReturned => FracsAsStated(tex_box, FontSize)

\* a fraction in the numerator of a fraction, rendered: the outer bar at
\* 0.28 * 11 above the baseline, the inner bar 0.28 * 8.8 above the baseline
\* of the numerator
C22_Witness ==
    /\ Rendered
    /\ tex_text = FracText(FracText(<<"2">>, <<"y">>), <<"y">>)
    /\ Len(rendered) = 5
    /\ rendered[1].kind = "line" /\ rendered[1].points[1][2] = 2 * BaselineY - 2 * 308
    /\ rendered[2].kind = "line" /\ rendered[2].stroke_width = 35
    /\ rendered[3].font_size = 704

\* SupBox.render of the superscript at baseline y, as stated: the glyphs of
\* the sup are drawn on a baseline 0.4 * base.ascent above y
SupRenderedAsStated(b, y) ==
    LET base == b.children[1]
        sup == b.children[2]
        r == render(b, 0, y)
    IN (FlatRow(sup) /\ HasGlyph(sup)) =>
          /\ Len(r) = Len(render(base, 0, y)) + Len(render(sup, 0, y))
          /\ SubSeq(r, 1, Len(render(base, 0, y))) = render(base, 0, y)
          /\ \A k \in (Len(render(base, 0, y)) + 1)..Len(r) :
                r[k].points[1][2] = y - 2 * ((base.ascent * 400) \div 1000)

RECURSIVE SupsAsStated(_, _)
\* every superscript of the tree b, laid out at font size s, is as stated
SupsAsStated(b, s) ==
    CASE b.kind = "CharBox" -> b.font_size = s
      [] b.kind = "SupBox" ->
           LET base == b.children[1]
               sup == b.children[2]
           IN /\ SupsAsStated(base, s)
              /\ SupsAsStated(sup, (s * 700) \div 1000)
              /\ b.width = base.width + sup.width
              /\ b.ascent = MaxOf(base.ascent, sup.ascent + (base.ascent * 500) \div 1000)
              /\ b.descent = base.descent
              /\ engine = "utils" => SupRenderedAsStated(b, 2 * BaselineY)
      [] b.kind = "FracBox" ->
           \A i \in 1..2 : SupsAsStated(b.children[i], (s * 800) \div 1000)
      [] OTHER -> \A i \in 1..Len(b.children) : SupsAsStated(b.children[i], s)

\* C23: every superscript of a tree parse_layout returned for font size s
\* has its sup laid out at 0.7 * s, width base.width + sup.width, ascent
\* max(base.ascent, sup.ascent + 0.5 * base.ascent) and descent
\* base.descent, and SupBox.render raises the baseline of the sup by
\* 0.4 * base.ascent; the width of 'x^2' at size 16 is the width of 'x' at
\* 16 plus the width of '2' at 11.2.
C23_SuperscriptGeometry ==
    ParseReturned =>
        /\ SupsAsStated(tex_box, FontSize)
        /\ parse_layout(engine, <<"x", "^", "2">>, 1600).width
             = get_char_width(engine, <<"x">>, 1600, TRUE)
                 + get_char_width(engine, <<"2">>, 1120, FALSE)

\* 'y' with the superscript '2', rendered: the 2 at size 7.7 on a baseline
\* 0.4 * 6.05 above the y
C23_Witness ==
    /\ Rendered
    /\ tex_text = SupText(<<"y">>, <<"2">>)
    /\ Len(rendered) = 2
    /\ rendered[2].font_size = 770
    /\ rendered[2].points[1][2] = rendered[1].points[1][2] - 2 * 242

-----------------------------------------------------------------------------
(* Properties of the singularity scan *)

RECURSIVE Pow2(_)
Pow2(n) == IF n = 0 THEN 1 ELSE 2 * Pow2(n - 1)

\* the sample pairs of the scan whose signs differ
DifferingPairs ==
    {i \in 0..(NumScan - 2) :
        DenomSign(scan.e, ScanPoint(scan.dom, i))
          # DenomSign(scan.e, ScanPoint(scan.dom, i + 1))}

-----------------------------------------------------------------------------
(* Properties of the path commands *)

\* C25: the y of both control points of every CubicBezierTo command emitted
\* so far lies in [-50000, 50000] pixels, whatever the end values and the
\* derivative values of the step were (a derivative that cannot be evaluated
\* counting as slope 0).
C25_ControlPointsClamped ==
    \A i \in Segments :
        /\ -(100 * clamp_limit) <= path_data[i].c1y /\ path_data[i].c1y <= 100 * clamp_limit
        /\ -(100 * clamp_limit) <= path_data[i].c2y /\ path_data[i].c2y <= 100 * clamp_limit

\* a command of the utils engine whose end point lies beyond the limit and
\* whose control points are held at it
C25_Witness ==
    /\ engine = "utils"
    /\ \E i \in Segments :
          /\ Abs(path_data[i].y) > 100 * clamp_limit
          /\ Abs(path_data[i].c1y) = 100 * clamp_limit
          /\ Abs(path_data[i].c2y) = 100 * clamp_limit

\* the command before command i ends at the pixel of the start of step i
StartsWherePreviousEnded(i) ==
    /\ i > 1
    /\ path_data[i - 1].x = math_to_screen_x(path_data[i].xa)
    /\ path_data[i - 1].y
         = math_to_screen_y(safe_f(engine, expr, path_data[i].xa).v)

\* C26 as stated: the first command of the path is a MoveTo, and every
\* CubicBezierTo command of a step [a, b] is preceded by a MoveTo at the
\* pixel of a or by a CubicBezierTo that ends at the pixel of a, whatever
\* steps were retained, broken or dropped before.
C26_PathIsContinuous ==
    pc = "walk" =>
        /\ path_data # <<>> => path_data[1].cmd = "M"
        /\ \A i \in Segments : StartsWherePreviousEnded(i)

ParseCalls == GroupCalls(engine, <<>>, Tokens, FALSE)
Unparsed == parse_group(engine, <<>>, Tokens, FALSE).rest
IsSuffix(s, t) == Len(s) <= Len(t) /\ SubSeq(t, Len(t) - Len(s) + 1, Len(t)) = s
RemovesToken(c) == Len(c.after) < Len(c.before) /\ IsSuffix(c.after, c.before)

\* C28 as stated: every pass of the loop of _parse_group and every call of
\* _parse_next_atom removes at least one token from the list it was handed
\* and puts none back, and the outermost _parse_group leaves no token.
C28_EveryCallRemovesToken ==
    ParseReturned =>
        /\ \A c \in ParseCalls : RemovesToken(c)
        /\ Unparsed = <<>>

\* C28: every pass of the loop of _parse_group removes at least one token,
\* every call of _parse_next_atom on a list that is not empty removes at
\* least one token, a call of _parse_next_atom on the empty list leaves it
\* empty, what a call leaves is an end piece of what it was handed, and the
\* outermost _parse_group leaves no token.
C28_ParserConsumes ==
    ParseReturned =>
        /\ \A c \in ParseCalls :
              IF c.before = <<>> THEN c.fn = "atom" /\ c.after = <<>>
              ELSE RemovesToken(c)
        /\ Unparsed = <<>>

\* a fraction whose numerator is a group with a root in it and whose
\* denominator is missing: the second _parse_next_atom gets the empty list
C28_Witness ==
    /\ ParseReturned
    /\ ParserCall("atom", <<>>, <<>>) \in ParseCalls
    /\ \E c \in ParseCalls : c.fn = "atom" /\ Len(c.before) - Len(c.after) >= 4
    /\ \E c \in ParseCalls : c.fn = "pass" /\ Len(c.before) = 5 /\ c.after = <<>>

\* every box of the tree b has width, ascent and descent of at least 0
RECURSIVE NoNegativeSize(_)
NoNegativeSize(b) ==
    /\ b.width >= 0 /\ b.ascent >= 0 /\ b.descent >= 0
    /\ \A i \in 1..Len(b.children) : NoNegativeSize(b.children[i])

\* C29 as stated: every box of the tree parse_layout returns has width >= 0,
\* ascent >= 0 and descent >= 0, also in fractions, roots and superscripts
\* whose arguments are empty groups.
C29_BoxSizesNotNegative ==
    ParseReturned => NoNegativeSize(tex_box)

\* the positions of the text at hand the tokenizer passes over, and the text
\* without them
SkippedHere == Skipped(engine, tex_text, 1)
RECURSIVE Without(_, _, _)
Without(text, skip, i) ==
    IF i > Len(text) THEN <<>>
    ELSE (IF i \in skip THEN <<>> ELSE <<text[i]>>) \o Without(text, skip, i + 1)
Cleaned == Without(tex_text, SkippedHere, 1)
RECURSIVE JoinTokens(_)
JoinTokens(toks) ==
    IF toks = <<>> THEN <<>> ELSE Head(toks) \o JoinTokens(Tail(toks))

\* the character at position i is of a class the tokenizer recognizes: a
\* brace, '^', '_', a letter, digit, listed sign or space, or a backslash that
\* a letter follows
Recognized(i) ==
    \/ tex_text[i] \in {"{", "}", "^", "_"}
    \/ IsPlainChar(engine, tex_text[i])
    \/ tex_text[i] = "\\" /\ i < Len(tex_text) /\ IsLetter(tex_text[i + 1])
DiscardsAsStated ==
    /\ SkippedHere = {i \in 1..Len(tex_text) : ~Recognized(i)}
    /\ JoinTokens(Tokens) = Cleaned

\* C30 as stated: the tokenizer discards exactly the characters outside its
\* recognized classes and keeps the others in order, the concatenation of the
\* tokens is the text without the discarded characters, and parse_layout of
\* the text equals parse_layout of the text without them.
C30_DiscardingChangesNothing ==
    ParseReturned =>
        /\ DiscardsAsStated
        /\ parse_layout(engine, Cleaned, FontSize) = tex_box

\* the first position of the run of letters that ends at k
RECURSIVE RunStart(_, _)
RunStart(text, k) ==
    IF k > 1 /\ IsLetter(text[k - 1]) THEN RunStart(text, k - 1) ELSE k
InCommand(k) ==
    /\ IsLetter(tex_text[k])
    /\ RunStart(tex_text, k) > 1
    /\ tex_text[RunStart(tex_text, k) - 1] = "\\"
\* k is a kept position with discarded characters right after it and a kept
\* position after those
BeforeGap(k) ==
    /\ k \notin SkippedHere /\ k + 1 \in SkippedHere
    /\ \E j \in k + 2..Len(tex_text) : j \notin SkippedHere
AfterGap(k) == CHOOSE j \in k + 2..Len(tex_text) :
                   /\ j \notin SkippedHere
                   /\ \A m \in k + 1..j - 1 : m \in SkippedHere
InCleaned(k) == Cardinality({j \in 1..k : j \notin SkippedHere})
\* removing the discarded characters after position k joins a command name
\* to a letter, or brings the letters of a function name together
JoinsAt(k) ==
    \/ InCommand(k) /\ IsLetter(tex_text[AfterGap(k)])
    \/ /\ engine = "utils"
       /\ \E f \in FuncNames : \E q \in 1..InCleaned(k) :
             /\ InCleaned(k) < q + Len(f) - 1
             /\ q + Len(f) - 1 <= Len(Cleaned)
             /\ SubSeq(Cleaned, q, q + Len(f) - 1) = f
NoJoin == \A k \in 1..Len(tex_text) : BeforeGap(k) => ~JoinsAt(k)

\* C30: the tokenizer discards exactly the characters outside its recognized
\* classes and keeps the others in order, the concatenation of the tokens is
\* the text without the discarded characters, and parse_layout of the text
\* equals parse_layout of the text without them whenever removing them
\* neither joins a command name to a following letter nor brings the letters
\* of a function name together.
C30_DiscardingKeepsTokens ==
    ParseReturned =>
        /\ DiscardsAsStated
        /\ NoJoin => parse_layout(engine, Cleaned, FontSize) = tex_box

\* the legacy tokenizer on s\*in: the backslash and the '*' are discarded,
\* and the three letters are three tokens with and without them
C30_Witness ==
    /\ ParseReturned /\ engine = "legacy"
    /\ tex_text = <<"s", "\\", "*", "i", "n">>
    /\ SkippedHere = {2, 3}
    /\ Tokens = <<<<"s">>, <<"i">>, <<"n">>>>
    /\ NoJoin
====
